---------------------------- MODULE Spec2Model ----------------------------
(***************************************************************************)
(* Retirement countdown page (src/script.js): the target date and its      *)
(* store, the update-date handler with its validation, the per-second      *)
(* countdown evaluation with the calendar metrics and the milestone list,  *)
(* the progress percentage, the milestone timer, the confetti and the      *)
(* celebration state.  The file server that serves the page: the hardened  *)
(* one (the script in src/TEST_README.md) with its rate limiter, path      *)
(* validation and response headers, and the simple one                     *)
(* (src/unnamed/part_001).                                                 *)
(*                                                                         *)
(* Time.  A JavaScript Date is a count of milliseconds.  Those counts do   *)
(* not fit the model checker's integers, so an instant is kept as the pair *)
(* [d, ms]: whole days since 1970-01-01 and milliseconds within that day   *)
(* (value = d * MsPerDay + ms, 0 <= ms < MsPerDay).  A difference of two   *)
(* instants is kept the same way, d possibly negative.  The host's time    *)
(* zone is taken to be a fixed-offset zone with offset zero, so local      *)
(* calendar days are all MsPerDay long and local fields are UTC fields.    *)
(*                                                                         *)
(* A handler runs to completion at one clock reading: the successive       *)
(* `new Date()` calls inside one handler return the same instant.          *)
(*                                                                         *)
(* Text written to the page is kept as the number it denotes (the grouping *)
(* separators of toLocaleString and the digits kept by toFixed are not     *)
(* modelled).                                                              *)
(*                                                                         *)
(* Five specifications share the page's actions.  Spec: the user's actions *)
(* and the countdown timer.  TimerSpec: both timers while time passes.     *)
(* LoadSpec: page loads over a grid of clock readings and stored values.   *)
(* ProgressSpec: calculateProgress and updateProgress over a grid of clock *)
(* readings and targets around the employment start date.  ConfettiSpec:   *)
(* every caller of createConfetti and the removal timers.  Two more are    *)
(* the server's.  ServerSpec: requests of every kind to either server.     *)
(* RateSpec: two clients' requests while the rate limiter's window passes. *)
(***************************************************************************)
EXTENDS Integers, Sequences, FiniteSets

VARIABLES
    phase,              \* "unloaded" | "running" | "celebration": what the document shows
    now,                \* the clock: the value `new Date()` returns
    retirementDate,     \* script.js:2, the in-memory target date
    stored,             \* localStorage['retirementDate']: NoValue or a string value
    display,            \* the countdown and metric elements' text, Blank before a render
    milestones,         \* the children of #milestones: <<[threshold, state], ...>>
    lastMilestoneDays,  \* script.js:292
    rebuilt,            \* history: whether the most recent handler rebuilt the
                        \* milestone list
    progress,           \* the progress elements: NoProgress before a render
    countdownInterval,  \* script.js:10, TRUE while the interval is scheduled
    milestoneInterval,  \* script.js:11, TRUE while the interval is scheduled
    lastDays,           \* script.js:549, the milestone timer's previous days value
    persisted,          \* history: the Date whose string the store holds, if the
                        \* page wrote it
    confetti,           \* the number of children of #confetti-container
    celebrationConfettiInterval,
                        \* script.js:12, TRUE while the interval is scheduled
    stopTimers,         \* the 30-second timeouts of script.js:464 still pending
    celebrations,       \* history: the runs of celebrateRetirement in this document
    requestCounts,      \* the server's Map from client IP to {count, resetTime}
    response,           \* history: the response to the server's latest request
    announced,          \* history: the days values the milestone timer has
                        \* announced since the target last changed
    notes,              \* the notifications the most recent handler showed, in order
    lastEval,           \* history: what the most recent updateCountdown read and decided
    lastOp,             \* history: the most recent handler and its outcome
    advances            \* history: how many times the clock has been advanced

vars == <<phase, now, retirementDate, stored, display, milestones,
          lastMilestoneDays, rebuilt, progress, countdownInterval,
          milestoneInterval,
          lastDays, persisted, confetti, celebrationConfettiInterval,
          stopTimers, celebrations, requestCounts, response, announced,
          notes, lastEval, lastOp, advances>>

confettiVars == <<confetti, celebrationConfettiInterval, stopTimers, celebrations>>

serverVars == <<requestCounts, response>>

-----------------------------------------------------------------------------
(* Units of time *)

MsPerSecond == 1000
SecondsPerMinute == 60
MinutesPerHour == 60
HoursPerDay == 24
DaysPerWeek == 7

MsPerMinute == MsPerSecond * SecondsPerMinute
MsPerHour == MsPerMinute * MinutesPerHour
MsPerDay == MsPerSecond * SecondsPerMinute * MinutesPerHour * HoursPerDay

\* A nullable number: null, or a number v
None == [some |-> FALSE]
Some(v) == [some |-> TRUE, v |-> v]

-----------------------------------------------------------------------------
(* Date arithmetic on [d, ms] pairs *)

MkDate(days, millis) ==
    [d |-> days + (millis \div MsPerDay), ms |-> millis % MsPerDay]

\* a - b for two Dates (or two millisecond counts): a millisecond count
DateSub(a, b) == MkDate(a.d - b.d, a.ms - b.ms)

\* x <= 0 for a millisecond count
MsLeqZero(x) == x.d < 0 \/ (x.d = 0 /\ x.ms = 0)

\* a <= b and a > b for two Dates
DateLeq(a, b) == MsLeqZero(DateSub(a, b))
DateGt(a, b) == ~DateLeq(a, b)

\* Math.floor(x / 1000) for a millisecond count x
FloorSeconds(x) == x.d * (MsPerDay \div MsPerSecond) + (x.ms \div MsPerSecond)

\* Math.floor(x / (1000 * 60 * 60 * 24)) and Math.ceil of the same
FloorDays(x) == x.d
CeilDays(x) == x.d + (IF x.ms > 0 THEN 1 ELSE 0)

\* date.setHours(0, 0, 0, 0)
DayFloor(date) == [d |-> date.d, ms |-> 0]

\* date.getDay(): 0 is Sunday; 1970-01-01 was a Thursday
GetDay(date) == (date.d + 4) % DaysPerWeek

-----------------------------------------------------------------------------
(* The civil calendar behind getFullYear/getMonth/getDate and the Date      *)
(* constructor: proleptic Gregorian, months 1..12.                          *)

DaysFromCivil(y, m, dd) ==
    LET yy == IF m <= 2 THEN y - 1 ELSE y
        era == yy \div 400
        yoe == yy - era * 400
        mp == IF m > 2 THEN m - 3 ELSE m + 9
        doy == ((153 * mp + 2) \div 5) + dd - 1
        doe == yoe * 365 + (yoe \div 4) - (yoe \div 100) + doy
    IN era * 146097 + doe - 719468

CivilFromDays(z) ==
    LET zz == z + 719468
        era == zz \div 146097
        doe == zz - era * 146097
        yoe == (doe - (doe \div 1460) + (doe \div 36524) - (doe \div 146096)) \div 365
        doy == doe - (365 * yoe + (yoe \div 4) - (yoe \div 100))
        mp == (5 * doy + 2) \div 153
        dd == doy - ((153 * mp + 2) \div 5) + 1
        m == IF mp < 10 THEN mp + 3 ELSE mp - 9
    IN [y |-> IF m <= 2 THEN yoe + era * 400 + 1 ELSE yoe + era * 400,
        mo |-> m, day |-> dd]

-----------------------------------------------------------------------------
(* Strings that carry a date, kept as their fields, and their conversions   *)

\* new Date(NaN): the result of parsing a string that is no date
InvalidDate == [invalid |-> TRUE]

\* isNaN(date.getTime())
IsNaN(date) == date = InvalidDate

\* '' and a string that is no date, as values of the input or of the store
EmptyString == [kind |-> "empty"]
NotADate == [kind |-> "text"]

\* formatDateForInput: `YYYY-MM-DDTHH:mm` in local time; seconds and
\* milliseconds are dropped
formatDateForInput(date) ==
    LET c == CivilFromDays(date.d)
    IN [kind |-> "local", y |-> c.y, mo |-> c.mo, day |-> c.day,
        h |-> date.ms \div MsPerHour,
        mi |-> (date.ms \div MsPerMinute) % MinutesPerHour]

\* toISOString with the milliseconds dropped
toISOStringWholeSeconds(date) ==
    LET c == CivilFromDays(date.d)
    IN [kind |-> "iso", y |-> c.y, mo |-> c.mo, day |-> c.day,
        h |-> date.ms \div MsPerHour,
        mi |-> (date.ms \div MsPerMinute) % MinutesPerHour,
        s |-> (date.ms \div MsPerSecond) % SecondsPerMinute,
        ms |-> 0]

\* date.toISOString(): `YYYY-MM-DDTHH:mm:ss.sssZ`
toISOString(date) ==
    LET c == CivilFromDays(date.d)
    IN [kind |-> "iso", y |-> c.y, mo |-> c.mo, day |-> c.day,
        h |-> date.ms \div MsPerHour,
        mi |-> (date.ms \div MsPerMinute) % MinutesPerHour,
        s |-> (date.ms \div MsPerSecond) % SecondsPerMinute,
        ms |-> date.ms % MsPerSecond]

\* new Date(string)
ParseDate(str) ==
    CASE str.kind = "local" ->
            MkDate(DaysFromCivil(str.y, str.mo, str.day),
                   str.h * MsPerHour + str.mi * MsPerMinute)
      [] str.kind = "iso" ->
            MkDate(DaysFromCivil(str.y, str.mo, str.day),
                   str.h * MsPerHour + str.mi * MsPerMinute
                     + str.s * MsPerSecond + str.ms)
      [] OTHER -> InvalidDate

\* date.setFullYear(date.getFullYear() + n): the same month, day and time of
\* day in the later year; a 29 February lands on 1 March of a common year
AddYears(date, n) ==
    LET c == CivilFromDays(date.d)
    IN MkDate(DaysFromCivil(c.y + n, c.mo, c.day), date.ms)

\* new Date('2026-02-27T16:00:00')
DefaultRetirementDate == MkDate(DaysFromCivil(2026, 2, 27), 16 * MsPerHour)

-----------------------------------------------------------------------------
(* updateCountdown: the reached test and the time units                     *)

\* Reached with the bug `diff < 0`
ReachedStrict(diff) == diff.d < 0

\* script.js:97, `diff <= 0`
Reached(diff) == MsLeqZero(diff)

\* Math.floor(days / 30.44)
ApproxMonths(days) == (days * 100) \div 3044

\* CountdownFields with the bug of writing the total hours, not hours % 24
CountdownFieldsRawHours(diff) ==
    LET seconds == FloorSeconds(diff)
        minutes == seconds \div SecondsPerMinute
        hours == minutes \div MinutesPerHour
        days == hours \div HoursPerDay
    IN [days |-> days,
        hours |-> hours,
        minutes |-> minutes % MinutesPerHour,
        seconds |-> seconds % SecondsPerMinute,
        months |-> ApproxMonths(days),
        weeks |-> days \div DaysPerWeek,
        totalHours |-> hours]

\* script.js:103-119: the units and what is written to the page
CountdownFields(diff) ==
    LET seconds == FloorSeconds(diff)
        minutes == seconds \div SecondsPerMinute
        hours == minutes \div MinutesPerHour
        days == hours \div HoursPerDay
        weeks == days \div DaysPerWeek
        months == ApproxMonths(days)
    IN [days |-> days,
        hours |-> hours % HoursPerDay,
        minutes |-> minutes % MinutesPerHour,
        seconds |-> seconds % SecondsPerMinute,
        months |-> months,
        weeks |-> weeks,
        totalHours |-> hours]

-----------------------------------------------------------------------------
(* updateFunMetrics *)

HoursPerWorkDay == 8

\* TotalDays counting both the first and the last day
TotalDaysInclusive(nowv, retirement) ==
    CeilDays(DateSub(DayFloor(retirement), DayFloor(nowv))) + 1

\* script.js:153-160
TotalDays(nowv, retirement) ==
    CeilDays(DateSub(DayFloor(retirement), DayFloor(nowv)))

\* RemainingDaysLoop with the bug of not wrapping the day of the week
RECURSIVE RemainingDaysLoopNoWrap(_, _, _, _)
RemainingDaysLoopNoWrap(i, remainingDays, startDayOfWeek, acc) ==
    IF i >= remainingDays THEN acc
    ELSE LET dayOfWeek == startDayOfWeek + i
             next ==
                 IF dayOfWeek = 0 \/ dayOfWeek = 6
                 THEN IF dayOfWeek = 6
                      THEN [acc EXCEPT !.weekends = @ + 1]
                      ELSE acc
                 ELSE [acc EXCEPT !.workDays = @ + 1,
                                  !.mondays = IF dayOfWeek = 1 THEN @ + 1 ELSE @,
                                  !.fridays = IF dayOfWeek = 5 THEN @ + 1 ELSE @]
         IN RemainingDaysLoopNoWrap(i + 1, remainingDays, startDayOfWeek, next)

\* script.js:185-194: the loop over the remaining days, from index i
RECURSIVE RemainingDaysLoop(_, _, _, _)
RemainingDaysLoop(i, remainingDays, startDayOfWeek, acc) ==
    IF i >= remainingDays THEN acc
    ELSE LET dayOfWeek == (startDayOfWeek + i) % DaysPerWeek
             next ==
                 IF dayOfWeek = 0 \/ dayOfWeek = 6
                 THEN IF dayOfWeek = 6
                      THEN [acc EXCEPT !.weekends = @ + 1]
                      ELSE acc
                 ELSE [acc EXCEPT !.workDays = @ + 1,
                                  !.mondays = IF dayOfWeek = 1 THEN @ + 1 ELSE @,
                                  !.fridays = IF dayOfWeek = 5 THEN @ + 1 ELSE @]
         IN RemainingDaysLoop(i + 1, remainingDays, startDayOfWeek, next)

\* CountWeekDays with the bug of counting both weekend days of a full week
CountWeekDaysBothWeekendDays(totalDays, startDayOfWeek) ==
    LET fullWeeks == totalDays \div DaysPerWeek
        remainingDays == totalDays % DaysPerWeek
        base == [weekends |-> fullWeeks * 2, workDays |-> fullWeeks * 5,
                 mondays |-> fullWeeks, fridays |-> fullWeeks]
    IN RemainingDaysLoop(0, remainingDays, startDayOfWeek, base)

\* script.js:173-194
CountWeekDays(totalDays, startDayOfWeek) ==
    LET fullWeeks == totalDays \div DaysPerWeek
        remainingDays == totalDays % DaysPerWeek
        base == [weekends |-> fullWeeks, workDays |-> fullWeeks * 5,
                 mondays |-> fullWeeks, fridays |-> fullWeeks]
    IN RemainingDaysLoop(0, remainingDays, startDayOfWeek, base)

\* SleepsShown with the calendar-day count in place of the countdown's days
SleepsShownTotalDays(totalDays, days) == totalDays

\* script.js:202-203: what is written to #sleeps and #sunrises
SleepsShown(totalDays, days) == days
SunrisesShown(totalDays, days) == days + 1

\* NoDaysLeft with the bug `totalDays < 0`
NoDaysLeftStrict(totalDays) == totalDays < 0

\* script.js:162, `totalDays <= 0`
NoDaysLeft(totalDays) == totalDays <= 0

\* script.js:152-206: what is written to the seven metric elements
FunMetrics(nowv, retirement, days) ==
    LET totalDays == TotalDays(nowv, retirement)
    IN IF NoDaysLeft(totalDays)
       THEN [weekends |-> 0, workDays |-> 0, workHours |-> 0, sleeps |-> 0,
             sunrises |-> 0, mondays |-> 0, fridays |-> 0]
       ELSE LET c == CountWeekDays(totalDays, GetDay(DayFloor(nowv)))
            IN [weekends |-> c.weekends,
                workDays |-> c.workDays,
                workHours |-> c.workDays * HoursPerWorkDay,
                sleeps |-> SleepsShown(totalDays, days),
                sunrises |-> SunrisesShown(totalDays, days),
                mondays |-> c.mondays,
                fridays |-> c.fridays]

-----------------------------------------------------------------------------
(* updateMilestones *)

\* script.js:299-308
allMilestones == <<730, 365, 180, 100, 50, 30, 7, 1>>

MilestoneWindow == 30

\* MilestoneState with the bug `days < m.threshold + 30`
MilestoneStateOpenWindow(days, threshold) ==
    IF days <= threshold THEN "achieved"
    ELSE IF days < threshold + MilestoneWindow /\ days > threshold THEN "active"
    ELSE "locked"

\* MilestoneState with the bug `days === m.threshold`
MilestoneStateExactDay(days, threshold) ==
    IF days = threshold THEN "achieved"
    ELSE IF days <= threshold + MilestoneWindow /\ days > threshold THEN "active"
    ELSE "locked"

\* MilestoneState with no active state
MilestoneStateNoWindow(days, threshold) ==
    IF days <= threshold THEN "achieved" ELSE "locked"

\* script.js:318-330
MilestoneState(days, threshold) ==
    IF days <= threshold THEN "achieved"
    ELSE IF days <= threshold + MilestoneWindow /\ days > threshold THEN "active"
    ELSE "locked"

\* script.js:313-368: the children appended to #milestones
BuildMilestones(days) ==
    [i \in 1..Len(allMilestones) |->
        [threshold |-> allMilestones[i],
         state |-> MilestoneState(days, allMilestones[i])]]

\* MilestonesStale with the bug of building the list on the first call only
MilestonesStaleFirstOnly(days, last) == last = None

\* script.js:294-297: whether the list is rebuilt
MilestonesStale(days, last) == Some(days) # last

-----------------------------------------------------------------------------
(* calculateProgress and updateProgress.  A JavaScript number that comes    *)
(* out of the division is kept exactly: NaN, an infinity, an integer, or    *)
(* the quotient c * n / t of two millisecond counts (t > 0) scaled by the   *)
(* integer c.  The rounding of double arithmetic is not modelled.           *)

\* new Date('2018-10-01T00:00:00')
EMPLOYMENT_START_DATE == MkDate(DaysFromCivil(2018, 10, 1), 0)

NaN == [kind |-> "nan"]
Infinity(sign) == [kind |-> "inf", sign |-> sign]
IntNum(v) == [kind |-> "int", v |-> v]
Quotient(n, t, c) == [kind |-> "ratio", n |-> n, t |-> t, c |-> c]

\* x = 0, x < 0, -x and a < b for millisecond counts
MsIsZero(x) == x.d = 0 /\ x.ms = 0
MsIsNegative(x) == x.d < 0
MsNeg(x) == MkDate(-x.d, -x.ms)
MsLess(a, b) == MsIsNegative(DateSub(a, b))

\* k * x for a millisecond count x and an integer k >= 0, by seconds and
\* milliseconds so that no intermediate value leaves the integers
MsTimes(x, k) ==
    LET secs == k * (x.ms \div MsPerSecond)
        millis == k * (x.ms % MsPerSecond)
        allSecs == secs + (millis \div MsPerSecond)
        secsPerDay == MsPerDay \div MsPerSecond
    IN [d |-> k * x.d + (allSecs \div secsPerDay),
        ms |-> (allSecs % secsPerDay) * MsPerSecond + (millis % MsPerSecond)]

\* a / b for two millisecond counts
Divide(a, b) ==
    IF MsIsZero(b)
    THEN IF MsIsZero(a) THEN NaN
         ELSE IF MsIsNegative(a) THEN Infinity(-1) ELSE Infinity(1)
    ELSE IF MsIsNegative(b) THEN Quotient(MsNeg(a), MsNeg(b), 1)
         ELSE Quotient(a, b, 1)

\* x * k for an integer k > 0
Times(x, k) ==
    CASE x.kind = "ratio" -> Quotient(x.n, x.t, x.c * k)
      [] x.kind = "int" -> IntNum(x.v * k)
      [] OTHER -> x

\* x < k and x > k for an integer k >= 0; both are false of NaN
NumLess(x, k) ==
    CASE x.kind = "nan" -> FALSE
      [] x.kind = "inf" -> x.sign < 0
      [] x.kind = "int" -> x.v < k
      [] x.kind = "ratio" -> MsLess(MsTimes(x.n, x.c), MsTimes(x.t, k))

NumGreater(x, k) ==
    CASE x.kind = "nan" -> FALSE
      [] x.kind = "inf" -> x.sign > 0
      [] x.kind = "int" -> x.v > k
      [] x.kind = "ratio" -> MsLess(MsTimes(x.t, k), MsTimes(x.n, x.c))

\* Math.min(k, x) and Math.max(k, x): NaN if x is NaN
MathMin(k, x) ==
    IF x.kind = "nan" THEN NaN
    ELSE IF NumGreater(x, k) THEN IntNum(k) ELSE x

MathMax(k, x) ==
    IF x.kind = "nan" THEN NaN
    ELSE IF NumLess(x, k) THEN IntNum(k) ELSE x

\* calculateProgress measuring the time that remains, not the time elapsed
calculateProgressRemaining(nowv, retirement) ==
    LET totalTime == DateSub(retirement, EMPLOYMENT_START_DATE)
        elapsed == DateSub(retirement, nowv)
    IN [totalTime |-> totalTime, elapsed |-> elapsed,
        percentage |-> MathMax(0, MathMin(100, Times(Divide(elapsed, totalTime), 100)))]

\* calculateProgress without the upper clamp Math.min(100, ...)
calculateProgressNoCap(nowv, retirement) ==
    LET totalTime == DateSub(retirement, EMPLOYMENT_START_DATE)
        elapsed == DateSub(nowv, EMPLOYMENT_START_DATE)
    IN [totalTime |-> totalTime, elapsed |-> elapsed,
        percentage |-> MathMax(0, Times(Divide(elapsed, totalTime), 100))]

\* calculateProgress counting the elapsed time from the day after the start
calculateProgressLateStart(nowv, retirement) ==
    LET totalTime == DateSub(retirement, EMPLOYMENT_START_DATE)
        elapsed == DateSub(nowv, MkDate(EMPLOYMENT_START_DATE.d + 1, 0))
    IN [totalTime |-> totalTime, elapsed |-> elapsed,
        percentage |-> MathMax(0, MathMin(100, Times(Divide(elapsed, totalTime), 100)))]

\* script.js:143-149
calculateProgress(nowv, retirement) ==
    LET totalTime == DateSub(retirement, EMPLOYMENT_START_DATE)
        elapsed == DateSub(nowv, EMPLOYMENT_START_DATE)
    IN [totalTime |-> totalTime, elapsed |-> elapsed,
        percentage |-> MathMax(0, MathMin(100, Times(Divide(elapsed, totalTime), 100)))]

\* ProgressDescription with the bug `percentage <= 25`, ... in every test
ProgressDescriptionInclusive(percentage) ==
    IF ~NumGreater(percentage, 25) /\ percentage.kind # "nan"
    THEN "The journey has begun!"
    ELSE IF ~NumGreater(percentage, 50) /\ percentage.kind # "nan"
    THEN "Making steady progress!"
    ELSE IF ~NumGreater(percentage, 75) /\ percentage.kind # "nan"
    THEN "More than halfway there!"
    ELSE IF ~NumGreater(percentage, 90) /\ percentage.kind # "nan"
    THEN "The finish line is in sight!"
    ELSE "Almost there! So close!"

\* script.js:224-237: the text of #progress-description
ProgressDescription(percentage) ==
    IF NumLess(percentage, 25) THEN "The journey has begun!"
    ELSE IF NumLess(percentage, 50) THEN "Making steady progress!"
    ELSE IF NumLess(percentage, 75) THEN "More than halfway there!"
    ELSE IF NumLess(percentage, 90) THEN "The finish line is in sight!"
    ELSE "Almost there! So close!"

\* the progress elements before a render
NoProgress == [some |-> FALSE]

\* script.js:125-128, 208-238: what calculateProgress returned and what
\* updateProgress wrote from it; the thermometer and the hourglass
\* (script.js:240-289) show the same percentage
ProgressShown(nowv, retirement) ==
    LET progressData == calculateProgress(nowv, retirement)
    IN [some |-> TRUE,
        totalTime |-> progressData.totalTime,
        elapsed |-> progressData.elapsed,
        percentage |-> progressData.percentage,
        description |-> ProgressDescription(progressData.percentage)]

\* script.js:372-383
quotes ==
    << "Every day brings you closer to your dream!",
       "You've worked hard for this moment!",
       "The best is yet to come!",
       "Soon you'll have all the time in the world!",
       "Freedom is just around the corner!",
       "New adventures await!",
       "Your well-deserved break is coming!",
       "Get ready to spread your wings!",
       "Paradise is calling your name!",
       "You're crushing this countdown!" >>

QuotePeriodMs == 10000

\* script.js:384-385: the text updateMotivation(days) writes, with the clock
\* at nowv: quotes[Math.floor(Date.now() / 10000) % quotes.length]
updateMotivation(days, nowv) ==
    LET quoteIndex ==
            (nowv.d * (MsPerDay \div QuotePeriodMs) + (nowv.ms \div QuotePeriodMs))
                % Len(quotes)
    IN quotes[quoteIndex + 1]

-----------------------------------------------------------------------------
(* createConfetti.  The document is taken to hold a #confetti-container,    *)
(* as the celebration screen does (script.js:446-451); without one          *)
(* createConfetti returns at once.                                          *)

MAX_CONFETTI_ELEMENTS == 200
ConfettiPerCall == 50

\* AddConfetti without the test inside the loop
RECURSIVE AddConfettiNoBreak(_, _)
AddConfettiNoBreak(i, children) ==
    IF i >= ConfettiPerCall THEN children
    ELSE AddConfettiNoBreak(i + 1, children + 1)

\* script.js:485-500: the loop, from index i, with children in the container
RECURSIVE AddConfetti(_, _)
AddConfetti(i, children) ==
    IF i >= ConfettiPerCall THEN children
    ELSE IF children >= MAX_CONFETTI_ELEMENTS THEN children
    ELSE AddConfetti(i + 1, children + 1)

\* script.js:473-501: the number of children after createConfetti()
createConfetti(children) ==
    IF children >= MAX_CONFETTI_ELEMENTS THEN children
    ELSE AddConfetti(0, children)

-----------------------------------------------------------------------------
(* The page: what updateCountdown and celebrateRetirement read and write    *)

BlankDisplay == [shown |-> FALSE]

Page ==
    [phase |-> phase, display |-> display, milestones |-> milestones,
     lastMilestoneDays |-> lastMilestoneDays, rebuilt |-> rebuilt,
     progress |-> progress,
     countdownInterval |-> countdownInterval,
     milestoneInterval |-> milestoneInterval,
     confetti |-> confetti,
     celebrationConfettiInterval |-> celebrationConfettiInterval,
     stopTimers |-> stopTimers, celebrations |-> celebrations]

\* script.js:401-470: the intervals are cleared and the body is replaced by
\* the celebration screen, with an empty #confetti-container of its own; the
\* confetti interval and the timeout that will stop it are started
celebrateRetirement(pg) ==
    [pg EXCEPT !.phase = "celebration",
               !.display = BlankDisplay,
               !.milestones = <<>>,
               !.rebuilt = FALSE,
               !.progress = NoProgress,
               !.countdownInterval = FALSE,
               !.milestoneInterval = FALSE,
               !.confetti = 0,
               !.celebrationConfettiInterval = TRUE,
               !.stopTimers = @ + 1,
               !.celebrations = @ + 1]

\* script.js:294-369
updateMilestones(days, pg) ==
    IF MilestonesStale(days, pg.lastMilestoneDays)
    THEN [pg EXCEPT !.lastMilestoneDays = Some(days),
                    !.milestones = BuildMilestones(days),
                    !.rebuilt = TRUE]
    ELSE [pg EXCEPT !.rebuilt = FALSE]

\* updateCountdown with the bug of no `return` after celebrateRetirement():
\* the values are rendered in the reached state too
updateCountdownNoReturn(nowv, target, pg) ==
    LET diff == DateSub(target, nowv)
        f == CountdownFields(diff)
        mt == FunMetrics(nowv, target, f.days)
        shown ==
            [shown |-> TRUE,
             days |-> f.days, hours |-> f.hours,
             minutes |-> f.minutes, seconds |-> f.seconds,
             months |-> f.months, weeks |-> f.weeks,
             totalHours |-> f.totalHours,
             weekends |-> mt.weekends, workDays |-> mt.workDays,
             workHours |-> mt.workHours, sleeps |-> mt.sleeps,
             sunrises |-> mt.sunrises, mondays |-> mt.mondays,
             fridays |-> mt.fridays,
             quote |-> updateMotivation(f.days, nowv)]
        before == IF Reached(diff) THEN celebrateRetirement(pg) ELSE pg
    IN updateMilestones(f.days,
           [before EXCEPT !.display = shown,
                          !.progress = ProgressShown(nowv, target)])

\* script.js:93-141 on page pg, with the clock at nowv and the target date
\* target: the page afterwards
updateCountdown(nowv, target, pg) ==
    LET diff == DateSub(target, nowv)
    IN IF Reached(diff)
       THEN celebrateRetirement(pg)
       ELSE LET f == CountdownFields(diff)
                m == FunMetrics(nowv, target, f.days)
                shown ==
                    [shown |-> TRUE,
                     days |-> f.days, hours |-> f.hours,
                     minutes |-> f.minutes, seconds |-> f.seconds,
                     months |-> f.months, weeks |-> f.weeks,
                     totalHours |-> f.totalHours,
                     weekends |-> m.weekends, workDays |-> m.workDays,
                     workHours |-> m.workHours, sleeps |-> m.sleeps,
                     sunrises |-> m.sunrises, mondays |-> m.mondays,
                     fridays |-> m.fridays,
                     quote |-> updateMotivation(f.days, nowv)]
            IN updateMilestones(f.days,
                   [pg EXCEPT !.display = shown,
                              !.progress = ProgressShown(nowv, target)])

\* the record of one evaluation
Evaluation(nowv, target) ==
    [some |-> TRUE, now |-> nowv, target |-> target]

SetPage(pg) ==
    /\ phase' = pg.phase
    /\ display' = pg.display
    /\ milestones' = pg.milestones
    /\ lastMilestoneDays' = pg.lastMilestoneDays
    /\ rebuilt' = pg.rebuilt
    /\ progress' = pg.progress
    /\ countdownInterval' = pg.countdownInterval
    /\ milestoneInterval' = pg.milestoneInterval
    /\ confetti' = pg.confetti
    /\ celebrationConfettiInterval' = pg.celebrationConfettiInterval
    /\ stopTimers' = pg.stopTimers
    /\ celebrations' = pg.celebrations

-----------------------------------------------------------------------------
(* The update-date click handler's validation, script.js:45-75              *)

MaxYearsAhead == 50

\* script.js:49, `!newDateValue`
IsEmptyValue(value) == value.kind = "empty"

\* script.js:64, `newDate <= now`
NotInFuture(newDate, nowv) == DateLeq(newDate, nowv)

\* script.js:70-71
MaxDate(nowv) == AddYears(nowv, MaxYearsAhead)

\* TooFarAhead with the bug `newDate >= maxDate`
TooFarAheadInclusive(newDate, nowv) == DateLeq(MaxDate(nowv), newDate)

\* script.js:72, `newDate > maxDate`
TooFarAhead(newDate, nowv) == DateGt(newDate, MaxDate(nowv))

\* script.js:46-75: the rule that rejects value, or "accepted"
Validate(value, nowv) ==
    IF IsEmptyValue(value) THEN "empty"
    ELSE LET newDate == ParseDate(value)
         IN IF IsNaN(newDate) THEN "invalid"
            ELSE IF NotInFuture(newDate, nowv) THEN "not-future"
            ELSE IF TooFarAhead(newDate, nowv) THEN "too-far"
            ELSE "accepted"

\* script.js:50, 58, 65, 73: the notification of each rejection
RejectionMessage(outcome) ==
    CASE outcome = "empty" -> "Please select a valid date"
      [] outcome = "invalid" -> "Invalid date format"
      [] outcome = "not-future" -> "Retirement date must be in the future"
      [] outcome = "too-far" -> "Date cannot be more than 50 years in the future"

\* localStorage.getItem on a key that is not set
NoStored == [kind |-> "none"]

\* script.js:18, `if (savedDate)`
HasSavedDate(savedDate) == savedDate.kind # "none" /\ savedDate.kind # "empty"

-----------------------------------------------------------------------------
(* The file server (the script at src/TEST_README.md:306-560): rate         *)
(* limiting, path validation and the responses.  A URL or a path is a       *)
(* sequence of characters; a file or directory name is kept as one          *)
(* character of its own.  An absolute path is the sequence of its segments. *)

RATE_LIMIT_WINDOW == 60000
MAX_REQUESTS_PER_WINDOW == 100

\* the client IPs
ClientIPs == {"10.0.0.1", "10.0.0.2"}

\* requestCounts.has(ip) is false
NoRecord == [has |-> FALSE]

\* new Map()
NoRequests == [ip \in ClientIPs |-> NoRecord]

\* no request has been answered
NoResponse == [status |-> 0]

\* checkRateLimit with the bug `now >= record.resetTime`
checkRateLimitInclusive(ip, nowv, counts) ==
    IF ~counts[ip].has
    THEN [allowed |-> TRUE,
          counts |-> [counts EXCEPT ![ip] =
                        [has |-> TRUE, count |-> 1,
                         resetTime |-> MkDate(nowv.d, nowv.ms + RATE_LIMIT_WINDOW)]]]
    ELSE LET record == counts[ip]
         IN IF DateLeq(record.resetTime, nowv)
            THEN [allowed |-> TRUE,
                  counts |-> [counts EXCEPT ![ip] =
                                [has |-> TRUE, count |-> 1,
                                 resetTime |-> MkDate(nowv.d, nowv.ms + RATE_LIMIT_WINDOW)]]]
            ELSE IF record.count >= MAX_REQUESTS_PER_WINDOW
            THEN [allowed |-> FALSE, counts |-> counts]
            ELSE [allowed |-> TRUE,
                  counts |-> [counts EXCEPT ![ip].count = @ + 1]]

\* src/TEST_README.md:347-368: whether the request is allowed, and the Map
\* afterwards
checkRateLimit(ip, nowv, counts) ==
    IF ~counts[ip].has
    THEN [allowed |-> TRUE,
          counts |-> [counts EXCEPT ![ip] =
                        [has |-> TRUE, count |-> 1,
                         resetTime |-> MkDate(nowv.d, nowv.ms + RATE_LIMIT_WINDOW)]]]
    ELSE LET record == counts[ip]
         IN IF DateGt(nowv, record.resetTime)
            THEN [allowed |-> TRUE,
                  counts |-> [counts EXCEPT ![ip] =
                                [has |-> TRUE, count |-> 1,
                                 resetTime |-> MkDate(nowv.d, nowv.ms + RATE_LIMIT_WINDOW)]]]
            ELSE IF record.count >= MAX_REQUESTS_PER_WINDOW
            THEN [allowed |-> FALSE, counts |-> counts]
            ELSE [allowed |-> TRUE,
                  counts |-> [counts EXCEPT ![ip].count = @ + 1]]

\* requestedPath.split('?')[0]
BeforeQuery(url) ==
    LET marks == {i \in 1..Len(url) : url[i] = "?"}
    IN IF marks = {} THEN url
       ELSE SubSeq(url, 1, (CHOOSE i \in marks : \A j \in marks : i <= j) - 1)

\* the hexadecimal digits among the characters
HexDigits == {"2", "5", "e", "f"}

\* the character that %ab stands for
PercentChar(a, b) ==
    CASE a = "2" /\ b = "e" -> "."
      [] a = "2" /\ b = "f" -> "/"
      [] a = "2" /\ b = "5" -> "%"
      [] OTHER -> "other"

\* decodeURIComponent(str): ok is FALSE where it throws URIError
RECURSIVE decodeURIComponent(_)
decodeURIComponent(str) ==
    IF str = <<>> THEN [ok |-> TRUE, out |-> <<>>]
    ELSE IF Head(str) # "%"
    THEN LET rest == decodeURIComponent(Tail(str))
         IN [ok |-> rest.ok, out |-> <<Head(str)>> \o rest.out]
    ELSE IF Len(str) < 3 \/ str[2] \notin HexDigits \/ str[3] \notin HexDigits
    THEN [ok |-> FALSE, out |-> <<>>]
    ELSE LET rest == decodeURIComponent(SubSeq(str, 4, Len(str)))
         IN [ok |-> rest.ok, out |-> <<PercentChar(str[2], str[3])>> \o rest.out]

\* str.includes(ab) for the two characters a, b
Includes(str, a, b) == \E i \in 1..(Len(str) - 1) : str[i] = a /\ str[i + 1] = b

\* str.split('/'), the segments found so far in acc and the current one in cur
RECURSIVE SplitPath(_, _, _)
SplitPath(str, cur, acc) ==
    IF str = <<>> THEN Append(acc, cur)
    ELSE IF Head(str) = "/" THEN SplitPath(Tail(str), <<>>, Append(acc, cur))
    ELSE SplitPath(Tail(str), Append(cur, Head(str)), acc)

\* path.resolve / path.join from the absolute path abs over the segments
\* segs: '' and '.' are dropped, '..' goes up
RECURSIVE ResolveFrom(_, _)
ResolveFrom(abs, segs) ==
    IF segs = <<>> THEN abs
    ELSE LET g == Head(segs)
         IN IF g = <<>> \/ g = <<".">> THEN ResolveFrom(abs, Tail(segs))
            ELSE IF g = <<".", ".">>
            THEN ResolveFrom(IF abs = <<>> THEN abs
                             ELSE SubSeq(abs, 1, Len(abs) - 1), Tail(segs))
            ELSE ResolveFrom(Append(abs, g), Tail(segs))

\* __dirname: /srv/app
Dirname == << <<"srv">>, <<"app">> >>

\* the absolute path abs as a string: '/' before each segment
RECURSIVE PathString(_)
PathString(abs) ==
    IF abs = <<>> THEN <<>>
    ELSE <<"/">> \o Head(abs) \o PathString(Tail(abs))

\* str.startsWith(prefix)
StartsWith(str, prefix) ==
    Len(str) >= Len(prefix) /\ SubSeq(str, 1, Len(prefix)) = prefix

\* src/unnamed/part_001:38: fullPath.startsWith(__dirname)
WithinDirNoSeparator(fullPath) ==
    StartsWith(PathString(fullPath), PathString(Dirname))

\* src/TEST_README.md:407: fullPath.startsWith(normalizedDir + path.sep) ||
\* fullPath === normalizedDir
WithinDir(fullPath) ==
    \/ StartsWith(PathString(fullPath), PathString(Dirname) \o <<"/">>)
    \/ PathString(fullPath) = PathString(Dirname)

\* path.extname(fullPath)
Extname(fullPath) ==
    IF fullPath = <<>> THEN <<>>
    ELSE LET base == fullPath[Len(fullPath)]
             dots == {i \in 1..Len(base) : base[i] = "."}
             last == CHOOSE i \in dots : \A j \in dots : j <= i
         IN IF dots = {} \/ last = 1 THEN <<>>
            ELSE SubSeq(base, last, Len(base))

\* ext.toLowerCase()
ToLowerCase(ext) ==
    [i \in 1..Len(ext) |-> IF ext[i] = "HTML" THEN "html" ELSE ext[i]]

\* src/TEST_README.md:330
allowedExtensions ==
    { <<".", e>> : e \in {"html", "css", "js", "json", "png", "jpg", "gif",
                          "svg", "ico"} }

\* a path that validatePath rejects
NullPath == [valid |-> FALSE]

\* src/TEST_README.md:381-418
validatePath(requestedPath) ==
    LET filePath == IF BeforeQuery(requestedPath) = <<"/">>
                    THEN <<"/", "index", ".", "html">>
                    ELSE BeforeQuery(requestedPath)
        decoded == decodeURIComponent(filePath)
        fullPath == ResolveFrom(Dirname, SplitPath(<<".">> \o decoded.out, <<>>, <<>>))
        ext == ToLowerCase(Extname(fullPath))
    IN IF ~decoded.ok THEN NullPath
       ELSE IF Includes(decoded.out, ".", ".") \/ Includes(decoded.out, "/", "/")
       THEN NullPath
       ELSE IF ~WithinDir(fullPath) THEN NullPath
       ELSE IF ext \notin allowedExtensions THEN NullPath
       ELSE [valid |-> TRUE, fullPath |-> fullPath, ext |-> ext]

\* src/TEST_README.md:333-340: the names of the security headers
securityHeaders ==
    {"X-Frame-Options", "X-Content-Type-Options", "X-XSS-Protection",
     "Referrer-Policy", "Permissions-Policy", "Content-Security-Policy"}

\* src/TEST_README.md:461-475: the names of the cache headers
getCacheHeaders(ext) ==
    IF ext = <<".", "html">> THEN {"Cache-Control", "Pragma"}
    ELSE {"Cache-Control"}

\* src/TEST_README.md:433-435 on mimeTypes[ext]: text/..., application/json
IsCompressible(ext) ==
    ext \in { <<".", e>> : e \in {"html", "css", "js", "json"} }

\* the file system was not reached
NoFile == [reached |-> FALSE]

\* res.writeHead(status) after the setHeader calls, or
\* res.writeHead(status, headers): the status and the header names sent, and
\* the path handed to fs.access
Respond(status, headers, file) ==
    [status |-> status, headers |-> headers, file |-> file]

\* src/TEST_README.md:476-546: the response to one request, once its
\* callbacks have run.  readable: fs.access finds the file; readOk: readFile
\* succeeds; gzip: the data is longer than 1024 and the client accepts gzip
HandleRequest(allowed, method, url, readable, readOk, gzip) ==
    IF ~allowed
    THEN Respond(429, {"Content-Type", "Retry-After"}, NoFile)
    ELSE IF method # "GET" /\ method # "HEAD"
    THEN Respond(405, {"Content-Type", "Allow"}, NoFile)
    ELSE LET pathResult == validatePath(url)
         IN IF ~pathResult.valid
            THEN Respond(403, {"Content-Type"}, NoFile)
            ELSE LET file == [reached |-> TRUE, fullPath |-> pathResult.fullPath]
                 IN IF ~readable THEN Respond(404, {"Content-Type"}, file)
                    ELSE IF ~readOk THEN Respond(500, {"Content-Type"}, file)
                    ELSE IF method = "HEAD"
                    THEN Respond(200,
                             getCacheHeaders(pathResult.ext)
                               \cup {"Content-Type", "Content-Length"}
                               \cup securityHeaders, file)
                    ELSE Respond(200,
                             getCacheHeaders(pathResult.ext)
                               \cup {"Content-Type", "Content-Length"}
                               \cup securityHeaders
                               \cup (IF IsCompressible(pathResult.ext) /\ gzip
                                     THEN {"Content-Encoding"} ELSE {}),
                             file)

\* src/unnamed/part_001:24-67: the simple server's response to one request
SimpleHandleRequest(url, readable, readOk) ==
    LET filePath == IF BeforeQuery(url) = <<"/">>
                    THEN <<"/", "index", ".", "html">>
                    ELSE BeforeQuery(url)
        fullPath == ResolveFrom(Dirname, SplitPath(filePath, <<>>, <<>>))
        file == [reached |-> TRUE, fullPath |-> fullPath]
    IN IF ~WithinDirNoSeparator(fullPath)
       THEN Respond(403, {"Content-Type"}, NoFile)
       ELSE IF ~readable THEN Respond(404, {"Content-Type"}, file)
       ELSE IF ~readOk THEN Respond(500, {"Content-Type"}, file)
       ELSE Respond(200, {"Content-Type"}, file)

-----------------------------------------------------------------------------
(* Bounds of the model *)

\* the clock is advanced at most this many times
MaxAdvances == 2
\* the update-date input is tried up to this many days after the clock's day
MaxInputDays == 1
\* the largest number of days between the clock and the stored date at a load
MaxSpanDays == 765

\* the steps the clock is advanced by: half a minute, 1 day
ClockSteps == {MsPerMinute \div 2, MsPerDay}

\* 2026-02-27T15:59:00.000, one minute before the default retirement date
StartInstant == MkDate(DaysFromCivil(2026, 2, 27), 15 * MsPerHour + 59 * MsPerMinute)

\* what the user may have put in the input when clicking, the clock at nowv:
\* nothing, no date, a minute around nowv in one of the next days, or a minute
\* around nowv fifty years ahead
InputValues(nowv) ==
    {EmptyString, NotADate}
    \cup { formatDateForInput(MkDate(nowv.d + dd, nowv.ms + mm * MsPerMinute)) :
             dd \in 0..MaxInputDays, mm \in {-1, 0, 1} }
    \cup { formatDateForInput(AddYears(MkDate(nowv.d, nowv.ms + mm * MsPerMinute),
                                       MaxYearsAhead)) : mm \in {0, 1} }

-----------------------------------------------------------------------------
(* Actions *)

NoOp == [op |-> "none"]

Init ==
    /\ phase = "unloaded"
    /\ now = StartInstant
    /\ retirementDate = DefaultRetirementDate
    /\ stored = NoStored
    /\ display = BlankDisplay
    /\ milestones = <<>>
    /\ lastMilestoneDays = None
    /\ rebuilt = FALSE
    /\ progress = NoProgress
    /\ countdownInterval = FALSE
    /\ milestoneInterval = FALSE
    /\ lastDays = None
    /\ confetti = 0
    /\ celebrationConfettiInterval = FALSE
    /\ stopTimers = 0
    /\ celebrations = 0
    /\ requestCounts = NoRequests
    /\ response = NoResponse
    /\ announced = {}
    /\ persisted = None
    /\ notes = <<>>
    /\ lastEval = None
    /\ lastOp = NoOp
    /\ advances = 0

\* loadSavedDate with the bug of leaving a stored value that is no date in
\* the store
loadSavedDateKeepsInvalid(readFails) ==
    IF readFails
    THEN [date |-> DefaultRetirementDate, stored |-> stored,
          notes |-> <<"Unable to load saved date">>]
    ELSE IF HasSavedDate(stored) /\ ~IsNaN(ParseDate(stored))
         THEN [date |-> ParseDate(stored), stored |-> stored, notes |-> <<>>]
         ELSE [date |-> DefaultRetirementDate, stored |-> stored, notes |-> <<>>]

\* script.js:15-33: the target date and the store after loadSavedDate, and
\* the notifications it showed
loadSavedDate(readFails) ==
    IF readFails
    THEN [date |-> DefaultRetirementDate, stored |-> stored,
          notes |-> <<"Unable to load saved date">>]
    ELSE IF HasSavedDate(stored)
         THEN LET parsedDate == ParseDate(stored)
              IN IF IsNaN(parsedDate)
                 THEN [date |-> DefaultRetirementDate, stored |-> NoStored,
                       notes |-> <<>>]
                 ELSE [date |-> parsedDate, stored |-> stored, notes |-> <<>>]
         ELSE [date |-> DefaultRetirementDate, stored |-> stored, notes |-> <<>>]

\* script.js:1-12, 292, 543-557: the script runs in a fresh document
Load ==
    /\ UNCHANGED serverVars
    /\ phase = "unloaded"
    /\ \E readFails \in BOOLEAN :
         LET l == loadSavedDate(readFails)
             fresh == [phase |-> "running", display |-> BlankDisplay,
                       milestones |-> <<>>, lastMilestoneDays |-> None,
                       rebuilt |-> FALSE,
                       progress |-> NoProgress,
                       countdownInterval |-> FALSE,
                       milestoneInterval |-> FALSE,
                       confetti |-> 0,
                       celebrationConfettiInterval |-> FALSE,
                       stopTimers |-> 0, celebrations |-> 0]
             pg == updateCountdown(now, l.date, fresh)
         IN /\ retirementDate' = l.date
            /\ stored' = l.stored
            /\ persisted' = IF l.stored = stored THEN persisted ELSE None
            /\ notes' = l.notes
            /\ SetPage([pg EXCEPT !.countdownInterval = TRUE,
                                  !.milestoneInterval = TRUE])
            /\ lastEval' = Evaluation(now, l.date)
            /\ lastOp' = [op |-> "load", readFails |-> readFails,
                          savedDate |-> stored]
    /\ lastDays' = None
    /\ UNCHANGED <<now, advances>>
    /\ announced' = IF retirementDate' = retirementDate THEN announced ELSE {}

\* time passes
AdvanceClock ==
    /\ UNCHANGED serverVars
    /\ UNCHANGED announced
    /\ advances < MaxAdvances
    /\ \E step \in ClockSteps : now' = MkDate(now.d, now.ms + step)
    /\ advances' = advances + 1
    /\ UNCHANGED <<phase, retirementDate, stored, display, milestones,
                   lastMilestoneDays, rebuilt, progress, countdownInterval,
                   milestoneInterval, lastDays, persisted, notes, lastEval,
                   lastOp>>
    /\ UNCHANGED confettiVars

\* script.js:546: the countdown interval fires
CountdownTick ==
    /\ UNCHANGED serverVars
    /\ UNCHANGED announced
    /\ phase # "unloaded"
    /\ countdownInterval
    /\ SetPage(updateCountdown(now, retirementDate, Page))
    /\ lastEval' = Evaluation(now, retirementDate)
    /\ notes' = <<>>
    /\ lastOp' = [op |-> "tick"]
    /\ UNCHANGED <<now, retirementDate, stored, lastDays, persisted, advances>>

\* script.js:552: the days values the milestone timer announces
MilestoneTriggers == {100, 50, 30, 7, 1}

\* script.js:554
MilestoneMessage(days) ==
    CASE days = 100 -> "Milestone: 100 days remaining!"
      [] days = 50 -> "Milestone: 50 days remaining!"
      [] days = 30 -> "Milestone: 30 days remaining!"
      [] days = 7 -> "Milestone: 7 days remaining!"
      [] days = 1 -> "Milestone: 1 days remaining!"

\* MilestoneFires without the test `lastDays !== null`
MilestoneFiresOnFirst(days, last) ==
    Some(days) # last /\ days \in MilestoneTriggers

\* script.js:552: whether the tick announces the milestone
MilestoneFires(days, last) ==
    last # None /\ Some(days) # last /\ days \in MilestoneTriggers

\* script.js:550-556: the milestone interval fires
MilestoneTick ==
    /\ UNCHANGED serverVars
    /\ phase # "unloaded"
    /\ milestoneInterval
    /\ LET days == FloorDays(DateSub(retirementDate, now))
       IN /\ IF MilestoneFires(days, lastDays)
             THEN /\ confetti' = createConfetti(confetti)
                  /\ notes' = <<MilestoneMessage(days)>>
                  /\ announced' = announced \cup {days}
             ELSE /\ confetti' = confetti
                  /\ notes' = <<>>
                  /\ announced' = announced
          /\ lastDays' = Some(days)
    /\ UNCHANGED <<celebrationConfettiInterval, stopTimers, celebrations>>
    /\ lastOp' = [op |-> "milestone"]
    /\ UNCHANGED <<phase, now, retirementDate, stored, display, milestones,
                   lastMilestoneDays, progress, countdownInterval,
                   milestoneInterval, persisted, lastEval, advances>>
    /\ rebuilt' = FALSE

\* RejectUpdate with the bug of assigning retirementDate before the range
\* checks
RejectUpdateAfterAssign(value, outcome) ==
    /\ notes' = <<RejectionMessage(outcome)>>
    /\ retirementDate' = IF outcome \in {"not-future", "too-far"}
                         THEN ParseDate(value)
                         ELSE retirementDate
    /\ UNCHANGED <<stored, persisted, phase, display, milestones,
                   lastMilestoneDays, progress, countdownInterval,
                   milestoneInterval, lastEval>>
    /\ UNCHANGED confettiVars
    /\ rebuilt' = FALSE

\* script.js:49-75: a failed rule shows its notification and returns
RejectUpdate(value, outcome) ==
    /\ notes' = <<RejectionMessage(outcome)>>
    /\ UNCHANGED <<retirementDate, stored, persisted, phase, display,
                   milestones, lastMilestoneDays, progress,
                   countdownInterval,
                   milestoneInterval, lastEval>>
    /\ UNCHANGED confettiVars
    /\ rebuilt' = FALSE

\* AcceptUpdate with the bug of leaving the render to the next timer tick
AcceptUpdateNoRender(newDate, writeFails) ==
    /\ retirementDate' = newDate
    /\ stored' = IF writeFails THEN stored ELSE toISOString(newDate)
    /\ persisted' = IF writeFails THEN persisted ELSE Some(newDate)
    /\ notes' = (IF writeFails
                 THEN <<"Date updated but could not be saved">>
                 ELSE <<>>)
                \o <<"Retirement date updated!">>
    /\ confetti' = createConfetti(confetti)
    /\ UNCHANGED <<phase, display, milestones, lastMilestoneDays, rebuilt,
                   progress,
                   countdownInterval, milestoneInterval, lastEval,
                   celebrationConfettiInterval, stopTimers, celebrations>>

\* AcceptUpdate with the bug of giving the new date up when the write fails
AcceptUpdateRevertOnFailure(newDate, writeFails) ==
    LET kept == IF writeFails THEN retirementDate ELSE newDate
    IN /\ retirementDate' = kept
       /\ stored' = IF writeFails THEN stored ELSE toISOString(newDate)
       /\ persisted' = IF writeFails THEN persisted ELSE Some(newDate)
       /\ notes' = (IF writeFails
                    THEN <<"Date updated but could not be saved">>
                    ELSE <<>>)
                   \o <<"Retirement date updated!">>
       /\ SetPage(updateCountdown(now, kept,
                   [Page EXCEPT !.confetti = createConfetti(confetti)]))
       /\ lastEval' = Evaluation(now, kept)

\* script.js:77-89: the new date is taken, saved and rendered
AcceptUpdate(newDate, writeFails) ==
    /\ retirementDate' = newDate
    /\ stored' = IF writeFails THEN stored ELSE toISOString(newDate)
    /\ persisted' = IF writeFails THEN persisted ELSE Some(newDate)
    /\ notes' = (IF writeFails
                 THEN <<"Date updated but could not be saved">>
                 ELSE <<>>)
                \o <<"Retirement date updated!">>
    /\ SetPage(updateCountdown(now, newDate,
                [Page EXCEPT !.confetti = createConfetti(confetti)]))
    /\ lastEval' = Evaluation(now, newDate)

\* script.js:45-90: a click on update-date with value in the input
ClickUpdate ==
    /\ UNCHANGED serverVars
    /\ phase = "running"
    /\ \E value \in InputValues(now), writeFails \in BOOLEAN :
         LET outcome == Validate(value, now)
         IN /\ lastOp' = [op |-> "click", value |-> value, outcome |-> outcome,
                          at |-> now,
                          writeFails |-> writeFails /\ outcome = "accepted"]
            /\ IF outcome # "accepted"
               THEN RejectUpdate(value, outcome)
               ELSE AcceptUpdate(ParseDate(value), writeFails)
    /\ UNCHANGED <<now, lastDays, advances>>
    /\ announced' = IF retirementDate' = retirementDate THEN announced ELSE {}

\* the document is discarded: the script's variables and timers go with it
Discarded ==
    /\ phase' = "unloaded"
    /\ retirementDate' = DefaultRetirementDate
    /\ display' = BlankDisplay
    /\ milestones' = <<>>
    /\ lastMilestoneDays' = None
    /\ rebuilt' = FALSE
    /\ progress' = NoProgress
    /\ countdownInterval' = FALSE
    /\ milestoneInterval' = FALSE
    /\ lastDays' = None
    /\ confetti' = 0
    /\ celebrationConfettiInterval' = FALSE
    /\ stopTimers' = 0
    /\ celebrations' = 0
    /\ notes' = <<>>
    /\ lastEval' = None

\* script.js:389-399: the celebration screen's button; the stored date is
\* removed and the page reloaded
Reset ==
    /\ UNCHANGED serverVars
    /\ phase = "celebration"
    /\ \E removeFails \in BOOLEAN :
         /\ stored' = IF removeFails THEN stored ELSE NoStored
         /\ persisted' = IF removeFails THEN persisted ELSE None
         /\ lastOp' = [op |-> "reset", removeFails |-> removeFails]
    /\ Discarded
    /\ UNCHANGED <<now, advances>>
    /\ announced' = IF retirementDate' = retirementDate THEN announced ELSE {}

\* the user's actions and the countdown timer
Next == Load \/ AdvanceClock \/ CountdownTick \/ ClickUpdate \/ Reset

Spec == Init /\ [][Next]_vars

-----------------------------------------------------------------------------
(* The two timers while time passes, without the user's updates: the page   *)
(* is loaded with no stored date, with a stored date that has passed, or    *)
(* with one that a day's advance of the clock brings to a milestone's       *)
(* threshold or into its window.                                            *)

\* one day before the first clock reading, and 15 seconds more than T + 1 or
\* T + 31 days after it, for each threshold T
TimerTargets ==
    { MkDate(StartInstant.d - 1, StartInstant.ms) }
    \cup { MkDate(StartInstant.d + allMilestones[i] + k,
                  StartInstant.ms + 15 * MsPerSecond) :
             i \in 1..Len(allMilestones), k \in {1, MilestoneWindow + 1} }

TimerInit ==
    /\ phase = "unloaded"
    /\ now = StartInstant
    /\ retirementDate = DefaultRetirementDate
    /\ \/ /\ persisted = None
          /\ stored = NoStored
       \/ /\ persisted \in { Some(t) : t \in TimerTargets }
          /\ stored = toISOString(persisted.v)
    /\ display = BlankDisplay
    /\ milestones = <<>>
    /\ lastMilestoneDays = None
    /\ rebuilt = FALSE
    /\ progress = NoProgress
    /\ countdownInterval = FALSE
    /\ milestoneInterval = FALSE
    /\ lastDays = None
    /\ confetti = 0
    /\ celebrationConfettiInterval = FALSE
    /\ stopTimers = 0
    /\ celebrations = 0
    /\ requestCounts = NoRequests
    /\ response = NoResponse
    /\ announced = {}
    /\ notes = <<>>
    /\ lastEval = None
    /\ lastOp = NoOp
    /\ advances = 0

TimerNext == Load \/ AdvanceClock \/ CountdownTick \/ MilestoneTick \/ Reset

TimerSpec == TimerInit /\ [][TimerNext]_vars

-----------------------------------------------------------------------------
(* The confetti container and its timers, with the two periodic timers and  *)
(* the user's updates                                                       *)

\* how many of the 5-second removal timers fire in a row
RemovalBursts == {30, ConfettiPerCall}

\* script.js:461: the celebration interval fires
ConfettiTick ==
    /\ UNCHANGED serverVars
    /\ UNCHANGED announced
    /\ phase = "celebration"
    /\ celebrationConfettiInterval
    /\ confetti' = createConfetti(confetti)
    /\ lastOp' = [op |-> "confetti"]
    /\ UNCHANGED <<phase, now, retirementDate, stored, display, milestones,
                   lastMilestoneDays, progress, countdownInterval,
                   milestoneInterval, lastDays, persisted,
                   celebrationConfettiInterval, stopTimers, celebrations,
                   notes, lastEval, advances>>
    /\ rebuilt' = FALSE

\* script.js:464-469: a 30-second timeout fires
StopConfetti ==
    /\ UNCHANGED serverVars
    /\ UNCHANGED announced
    /\ stopTimers > 0
    /\ stopTimers' = stopTimers - 1
    /\ celebrationConfettiInterval' = FALSE
    /\ lastOp' = [op |-> "stop"]
    /\ UNCHANGED <<phase, now, retirementDate, stored, display, milestones,
                   lastMilestoneDays, progress, countdownInterval,
                   milestoneInterval, lastDays, persisted, confetti,
                   celebrations, notes, lastEval, advances>>
    /\ rebuilt' = FALSE

\* script.js:495-499: removal timers fire, each removing its element
RemoveConfetti ==
    /\ UNCHANGED serverVars
    /\ UNCHANGED announced
    /\ \E n \in RemovalBursts :
         /\ n <= confetti
         /\ confetti' = confetti - n
    /\ lastOp' = [op |-> "remove"]
    /\ UNCHANGED <<phase, now, retirementDate, stored, display, milestones,
                   lastMilestoneDays, progress, countdownInterval,
                   milestoneInterval, lastDays, persisted,
                   celebrationConfettiInterval, stopTimers, celebrations,
                   notes, lastEval, advances>>
    /\ rebuilt' = FALSE

\* the page is loaded with no stored date or with one that has passed; the
\* clock stays at its first reading
ConfettiInit ==
    /\ phase = "unloaded"
    /\ now = StartInstant
    /\ retirementDate = DefaultRetirementDate
    /\ \/ /\ persisted = None
          /\ stored = NoStored
       \/ /\ persisted = Some(MkDate(StartInstant.d - 1, StartInstant.ms))
          /\ stored = toISOString(persisted.v)
    /\ display = BlankDisplay
    /\ milestones = <<>>
    /\ lastMilestoneDays = None
    /\ rebuilt = FALSE
    /\ progress = NoProgress
    /\ countdownInterval = FALSE
    /\ milestoneInterval = FALSE
    /\ lastDays = None
    /\ confetti = 0
    /\ celebrationConfettiInterval = FALSE
    /\ stopTimers = 0
    /\ celebrations = 0
    /\ requestCounts = NoRequests
    /\ response = NoResponse
    /\ announced = {}
    /\ notes = <<>>
    /\ lastEval = None
    /\ lastOp = NoOp
    /\ advances = 0

ConfettiNext ==
    \/ Load \/ CountdownTick \/ MilestoneTick \/ ClickUpdate \/ Reset
    \/ ConfettiTick \/ StopConfetti \/ RemoveConfetti

ConfettiSpec == ConfettiInit /\ [][ConfettiNext]_vars

-----------------------------------------------------------------------------
(* Page loads over a grid of clock readings and stored dates: every day of  *)
(* the week and two times of day for the clock; for the stored date, every  *)
(* day from the day before the clock's to MaxSpanDays days after it, at     *)
(* three times of day, as an earlier visit's accepted update left it; or a  *)
(* store with no value, with '' or with a string that is no date.           *)

\* 00:00:00.000 and 15:59:30.250
LoadClockTimes == {0, 15 * MsPerHour + 59 * MsPerMinute + 30 * MsPerSecond + 250}

\* 00:00:00.000, 15:59:30.250 and 16:00:00.000
LoadTargetTimes == LoadClockTimes \cup {16 * MsPerHour}

LoadInit ==
    /\ phase = "unloaded"
    /\ now \in { MkDate(StartInstant.d + i, t) :
                    i \in 0..(DaysPerWeek - 1), t \in LoadClockTimes }
    /\ retirementDate = DefaultRetirementDate
    /\ \/ /\ persisted = None
          /\ stored \in {NoStored, EmptyString, NotADate}
       \/ /\ persisted \in { Some(MkDate(now.d + n, t)) :
                               n \in (-1)..MaxSpanDays, t \in LoadTargetTimes }
          /\ stored = toISOString(persisted.v)
    /\ display = BlankDisplay
    /\ milestones = <<>>
    /\ lastMilestoneDays = None
    /\ rebuilt = FALSE
    /\ progress = NoProgress
    /\ countdownInterval = FALSE
    /\ milestoneInterval = FALSE
    /\ lastDays = None
    /\ confetti = 0
    /\ celebrationConfettiInterval = FALSE
    /\ stopTimers = 0
    /\ celebrations = 0
    /\ requestCounts = NoRequests
    /\ response = NoResponse
    /\ announced = {}
    /\ notes = <<>>
    /\ lastEval = None
    /\ lastOp = NoOp
    /\ advances = 0

LoadSpec == LoadInit /\ [][Load]_vars

-----------------------------------------------------------------------------
(* calculateProgress and updateProgress applied to a grid of clock readings *)
(* and target dates around the employment start date: the clock from the    *)
(* day before the start to the day after the farthest target, each day one  *)
(* millisecond before, at, and one millisecond after midnight; the target   *)
(* ProgressSpanDays days or two milliseconds after the start, at the start, *)
(* one millisecond or ProgressSpanDays days before it, or the default date. *)

\* the number of days from the employment start to the farthest grid target
ProgressSpanDays == 100

ProgressNows ==
    { MkDate(EMPLOYMENT_START_DATE.d + k, e) :
        k \in (-1)..(ProgressSpanDays + 1), e \in {-1, 0, 1} }
    \cup {StartInstant}

ProgressTargets ==
    { MkDate(EMPLOYMENT_START_DATE.d + k, e) :
        k \in {-ProgressSpanDays, 0, ProgressSpanDays}, e \in {0} }
    \cup { MkDate(EMPLOYMENT_START_DATE.d, e) : e \in {-1, 2} }
    \cup {DefaultRetirementDate}

ProgressInit ==
    /\ phase = "running"
    /\ now \in ProgressNows
    /\ retirementDate \in ProgressTargets
    /\ stored = NoStored
    /\ display = BlankDisplay
    /\ milestones = <<>>
    /\ lastMilestoneDays = None
    /\ rebuilt = FALSE
    /\ progress = NoProgress
    /\ countdownInterval = FALSE
    /\ milestoneInterval = FALSE
    /\ lastDays = None
    /\ confetti = 0
    /\ celebrationConfettiInterval = FALSE
    /\ stopTimers = 0
    /\ celebrations = 0
    /\ requestCounts = NoRequests
    /\ response = NoResponse
    /\ announced = {}
    /\ persisted = None
    /\ notes = <<>>
    /\ lastEval = None
    /\ lastOp = NoOp
    /\ advances = 0

\* script.js:125-126: calculateProgress(now, retirementDate), then
\* updateProgress on its result
RenderProgress ==
    /\ UNCHANGED serverVars
    /\ UNCHANGED announced
    /\ progress = NoProgress
    /\ progress' = ProgressShown(now, retirementDate)
    /\ lastOp' = [op |-> "progress"]
    /\ UNCHANGED <<phase, now, retirementDate, stored, display, milestones,
                   lastMilestoneDays, rebuilt, countdownInterval,
                   milestoneInterval,
                   lastDays, persisted, notes, lastEval, advances>>
    /\ UNCHANGED confettiVars

ProgressSpec == ProgressInit /\ [][RenderProgress]_vars

-----------------------------------------------------------------------------
(* The file server's requests.  The server's clock is `now`; the page's     *)
(* variables stay as they are.                                              *)

pageVars == <<phase, retirementDate, stored, display, milestones,
              lastMilestoneDays, rebuilt, progress, countdownInterval,
              milestoneInterval, lastDays, persisted, notes, lastEval,
              announced>>

\* the request URLs
Urls ==
    { <<"/">>,
      <<"/", "index", ".", "html">>,
      <<"/", "index", ".", "HTML">>,
      <<"/", "index", ".", "html", "?", "v">>,
      <<"/", "notes", ".", "txt">>,
      <<"/", "css", "/", "style", ".", "css">>,
      <<"/", "css", "%", "2", "f", "style", ".", "css">>,
      <<"/", "css", "/", "/", "style", ".", "css">>,
      <<"/", ".", ".", "/", "etc", "/", "passwd">>,
      <<"/", ".", ".", "/", "app", "-", "evil", "/", "index", ".", "html">>,
      <<"/", "%", "2", "e", "%", "2", "e", "/", "etc", "/", "passwd">>,
      <<"/", "%", "2", "5", "2", "e", "%", "2", "5", "2", "e", "/", "etc", "/",
        "passwd">>,
      <<"/", "%", "2", "5", "2", "e", "%", "2", "5", "2", "e", "/", "index",
        ".", "html">>,
      <<"/", "%", "index", ".", "html">> }

Methods == {"GET", "HEAD", "POST"}

\* src/TEST_README.md:476-546: one request to the hardened server, from the
\* rate limit to the response
Request(ips, urls, methods) ==
    \E ip \in ips, url \in urls, method \in methods,
       readable \in BOOLEAN, readOk \in BOOLEAN, gzip \in BOOLEAN :
        LET limit == checkRateLimit(ip, now, requestCounts)
        IN /\ requestCounts' = limit.counts
           /\ response' = HandleRequest(limit.allowed, method, url, readable,
                                        readOk, gzip)
           /\ lastOp' = [op |-> "request", server |-> "hardened", ip |-> ip,
                         method |-> method, url |-> url]
           /\ UNCHANGED <<now, advances>>
           /\ UNCHANGED pageVars
           /\ UNCHANGED confettiVars

\* src/unnamed/part_001:24-67: one request to the simple server
SimpleRequest ==
    \E url \in Urls, method \in Methods, readable \in BOOLEAN,
       readOk \in BOOLEAN :
        /\ response' = SimpleHandleRequest(url, readable, readOk)
        /\ lastOp' = [op |-> "request", server |-> "simple", ip |-> "",
                      method |-> method, url |-> url]
        /\ UNCHANGED <<now, advances, requestCounts>>
        /\ UNCHANGED pageVars
        /\ UNCHANGED confettiVars

\* src/TEST_README.md:371-378: the cleanup interval fires
CleanUp ==
    /\ requestCounts' =
          [ip \in ClientIPs |->
              IF requestCounts[ip].has /\ DateGt(now, requestCounts[ip].resetTime)
              THEN NoRecord ELSE requestCounts[ip]]
    /\ requestCounts' # requestCounts
    /\ lastOp' = [op |-> "cleanup"]
    /\ UNCHANGED <<now, advances, response>>
    /\ UNCHANGED pageVars
    /\ UNCHANGED confettiVars

\* requests of every kind from one client, to either server
AnyRequest == Request({"10.0.0.1"}, Urls, Methods)

ServerNext == AnyRequest \/ SimpleRequest

\* the first client has made all but two of a window's requests, the window
\* having begun at StartInstant
ServerInit ==
    /\ phase = "unloaded"
    /\ now = StartInstant
    /\ retirementDate = DefaultRetirementDate
    /\ stored = NoStored
    /\ display = BlankDisplay
    /\ milestones = <<>>
    /\ lastMilestoneDays = None
    /\ rebuilt = FALSE
    /\ progress = NoProgress
    /\ countdownInterval = FALSE
    /\ milestoneInterval = FALSE
    /\ lastDays = None
    /\ confetti = 0
    /\ celebrationConfettiInterval = FALSE
    /\ stopTimers = 0
    /\ celebrations = 0
    /\ requestCounts =
          [NoRequests EXCEPT !["10.0.0.1"] =
              [has |-> TRUE, count |-> MAX_REQUESTS_PER_WINDOW - 2,
               resetTime |-> MkDate(StartInstant.d,
                                    StartInstant.ms + RATE_LIMIT_WINDOW)]]
    /\ response = NoResponse
    /\ announced = {}
    /\ persisted = None
    /\ notes = <<>>
    /\ lastEval = None
    /\ lastOp = NoOp
    /\ advances = 0

ServerSpec == ServerInit /\ [][ServerNext]_vars

\* the requests of the second client the rate limiter's model follows
MaxOtherRequests == 2

\* GET / from the first client
FirstClientRequest == Request({"10.0.0.1"}, {<<"/">>}, {"GET"})

\* GET / from the second client
SecondClientRequest ==
    /\ IF requestCounts["10.0.0.2"].has
       THEN requestCounts["10.0.0.2"].count < MaxOtherRequests
       ELSE TRUE
    /\ Request({"10.0.0.2"}, {<<"/">>}, {"GET"})

RateNext == FirstClientRequest \/ SecondClientRequest \/ AdvanceClock \/ CleanUp

RateSpec == Init /\ [][RateNext]_vars

-----------------------------------------------------------------------------
(* Properties *)

\* a is strictly before b
Earlier(a, b) == a.d < b.d \/ (a.d = b.d /\ a.ms < b.ms)

\* floor((b - a) / 1000): the whole seconds from a to b
WholeSeconds(a, b) == (b.d - a.d) * 86400 + ((b.ms - a.ms) \div 1000)

\* floor((b - a) / 86400000): the whole days from a to b
WholeDays(a, b) == (b.d - a.d) + ((b.ms - a.ms) \div 86400000)

\* the calendar days from a's day to b's day
CalendarDays(a, b) == b.d - a.d

\* C1: an evaluation with now < target does not enter the reached state, and
\* the days, hours, minutes and seconds it shows are the mixed-radix
\* decomposition of floor((target - now) / 1000), with hours in 0..23 and
\* minutes and seconds in 0..59.
C1_Decomposition ==
    (lastEval.some /\ Earlier(lastEval.now, lastEval.target)) =>
        /\ phase = "running"
        /\ display.shown
        /\ display.days * 86400 + display.hours * 3600
             + display.minutes * 60 + display.seconds
           = WholeSeconds(lastEval.now, lastEval.target)
        /\ display.days >= 0
        /\ display.hours \in 0..23
        /\ display.minutes \in 0..59
        /\ display.seconds \in 0..59

\* C1's case: days, hours, minutes and seconds all positive and a fraction
\* of a second dropped
C1_Witness ==
    /\ lastEval.some
    /\ Earlier(lastEval.now, lastEval.target)
    /\ display.shown
    /\ display.days > 1 /\ display.hours > 0
    /\ display.minutes > 0 /\ display.seconds > 0
    /\ (lastEval.target.ms - lastEval.now.ms) % 1000 # 0

\* C2: an evaluation shows the celebration screen, and no countdown values,
\* exactly when target <= now; with target > now it leaves the countdown up.
C2_ReachedIff ==
    lastEval.some =>
        /\ (phase = "celebration") <=> ~Earlier(lastEval.now, lastEval.target)
        /\ (phase = "celebration") => (~display.shown /\ milestones = <<>>)
        /\ Earlier(lastEval.now, lastEval.target) => (phase = "running" /\ display.shown)

\* C2's case: a timer tick at the very instant of the target
C2_Witness ==
    /\ lastOp.op = "tick"
    /\ lastEval.some
    /\ lastEval.target = lastEval.now
    /\ phase = "celebration"

\* the milestone list of C3
C3_Thresholds == <<730, 365, 180, 100, 50, 30, 7, 1>>

\* C3: with d days remaining, the list shows one entry per threshold T, in the
\* order 730, 365, 180, 100, 50, 30, 7, 1: achieved when d <= T, active when
\* T < d <= T + 30, locked when d > T + 30.
C3_MilestoneStates ==
    display.shown =>
        /\ Len(milestones) = 8
        /\ \A i \in 1..8 :
             LET T == C3_Thresholds[i]
                 d == display.days
             IN /\ milestones[i].threshold = T
                /\ (d <= T) => milestones[i].state = "achieved"
                /\ (T < d /\ d <= T + 30) => milestones[i].state = "active"
                /\ (d > T + 30) => milestones[i].state = "locked"

\* C3's case: 130 days remaining, the inclusive end of the window of 100
C3_Witness ==
    /\ display.shown
    /\ display.days = 130
    /\ milestones[4].state = "active"
    /\ milestones[3].state = "achieved"
    /\ milestones[5].state = "locked"

\* C4: a click is decided by the first failing rule, in the order empty,
\* unparseable, not in the future (candidate <= now), too far (candidate >
\* now + 50 years); a candidate with now < candidate <= now + 50 years is
\* accepted.
C4_ValidationOrder ==
    lastOp.op = "click" =>
        LET value == lastOp.value
            candidate == ParseDate(value)
            limit == AddYears(lastOp.at, 50)
            expected ==
                IF value = EmptyString THEN "empty"
                ELSE IF value = NotADate THEN "invalid"
                ELSE IF ~Earlier(lastOp.at, candidate) THEN "not-future"
                ELSE IF Earlier(limit, candidate) THEN "too-far"
                ELSE "accepted"
        IN /\ lastOp.outcome = expected
           /\ (expected = "accepted")
                <=> (notes[Len(notes)] = "Retirement date updated!")

\* C4's case: a candidate exactly 50 years after the clock is accepted
C4_Witness ==
    /\ lastOp.op = "click"
    /\ lastOp.outcome = "accepted"
    /\ lastOp.at = now
    /\ ParseDate(lastOp.value) = AddYears(now, 50)

\* the notification that names each rule
C5_Message(outcome) ==
    CASE outcome = "empty" -> "Please select a valid date"
      [] outcome = "invalid" -> "Invalid date format"
      [] outcome = "not-future" -> "Retirement date must be in the future"
      [] outcome = "too-far" -> "Date cannot be more than 50 years in the future"

\* C5: a click that is rejected leaves the target date and the stored value
\* as they were, shows exactly one notification, the one naming the violated
\* rule, and renders nothing; after the load has set it, the target date
\* changes only by an accepted click (or the reload of a reset).
C5_RejectionFrame ==
    [][ /\ (lastOp'.op = "click" /\ now' = now /\ lastOp'.outcome # "accepted") =>
            /\ retirementDate' = retirementDate
            /\ stored' = stored
            /\ notes' = <<C5_Message(lastOp'.outcome)>>
            /\ display' = display
            /\ milestones' = milestones
            /\ lastEval' = lastEval
            /\ phase' = phase
        /\ (retirementDate' # retirementDate) =>
            \/ lastOp'.op = "click" /\ lastOp'.outcome = "accepted"
            \/ lastOp'.op \in {"load", "reset"}
      ]_vars

\* C5's case: a rejected click after the date had been changed and persisted
C5_Witness ==
    /\ lastOp.op = "click"
    /\ lastOp.outcome = "not-future"
    /\ lastOp.at = now
    /\ retirementDate # DefaultRetirementDate
    /\ stored = toISOString(retirementDate)
    /\ notes = <<"Retirement date must be in the future">>

\* C6: after an accepted click the target date is the parsed candidate, the
\* store holds its ISO string unless the write failed, and the countdown on
\* the page is the one of the new target at the clock reading of the click.
C6_AcceptEffects ==
    (lastOp.op = "click" /\ lastOp.outcome = "accepted") =>
        /\ retirementDate = ParseDate(lastOp.value)
        /\ ~lastOp.writeFails =>
              /\ stored = toISOString(retirementDate)
              /\ ParseDate(stored) = retirementDate
        /\ lastEval = [some |-> TRUE, now |-> lastOp.at, target |-> retirementDate]
        /\ display.shown
        /\ display.days = WholeDays(lastOp.at, retirementDate)
        /\ display.seconds = WholeSeconds(lastOp.at, retirementDate) % 60

\* C6's case: an accepted click, persisted, after the clock has moved on
\* from its first reading
C6_Witness ==
    /\ lastOp.op = "click"
    /\ lastOp.outcome = "accepted"
    /\ ~lastOp.writeFails
    /\ lastOp.at # StartInstant
    /\ retirementDate.d = lastOp.at.d + 1
    /\ stored = toISOString(retirementDate)
    /\ display.shown /\ display.days = 0 /\ display.hours = 23

\* the day of the week of a's day, 0 for Sunday (1970-01-01 was a Thursday)
DayOfWeek(a) == (a.d + 4) % 7

\* how many of the n consecutive days that begin on day of the week s fall
\* on a day of the week in S, counted day by day
CountDaysIn(s, n, S) == Cardinality({i \in 0..(n - 1) : ((s + i) % 7) \in S})

\* C7: over a range of exactly 7k days, whatever day of the week it starts
\* on, weekends = k, workDays = 5k, mondays = k, fridays = k, workHours = 40k.
C7_FullWeeks ==
    (lastEval.some /\ display.shown
       /\ CalendarDays(lastEval.now, lastEval.target) % 7 = 0) =>
        LET k == CalendarDays(lastEval.now, lastEval.target) \div 7
        IN /\ display.weekends = k
           /\ display.workDays = 5 * k
           /\ display.mondays = k
           /\ display.fridays = k
           /\ display.workHours = 40 * k

\* C7's case: three full weeks that start on a Wednesday
C7_Witness ==
    /\ lastEval.some /\ display.shown
    /\ CalendarDays(lastEval.now, lastEval.target) = 21
    /\ DayOfWeek(lastEval.now) = 3
    /\ display.weekends = 3 /\ display.workDays = 15 /\ display.workHours = 120

\* C8: for n >= 1 days that start on day of the week s, the closed-form
\* counts equal the day-by-day counts: weekends the Saturdays, workDays the
\* Mondays to Fridays, mondays the Mondays, fridays the Fridays; with the
\* Sundays they add up to n.
C8_ClosedFormIsPerDayCount ==
    (lastEval.some /\ display.shown
       /\ CalendarDays(lastEval.now, lastEval.target) >= 1) =>
        LET n == CalendarDays(lastEval.now, lastEval.target)
            s == DayOfWeek(lastEval.now)
        IN /\ display.weekends = CountDaysIn(s, n, {6})
           /\ display.workDays = CountDaysIn(s, n, 1..5)
           /\ display.mondays = CountDaysIn(s, n, {1})
           /\ display.fridays = CountDaysIn(s, n, {5})
           /\ display.workDays + display.weekends + CountDaysIn(s, n, {0}) = n

\* C8's case: 10 days that start on a Friday, the 3 remaining days running
\* over the end of the week
C8_Witness ==
    /\ lastEval.some /\ display.shown
    /\ CalendarDays(lastEval.now, lastEval.target) = 10
    /\ DayOfWeek(lastEval.now) = 5
    /\ display.fridays = 2 /\ display.weekends = 2 /\ display.mondays = 1
    /\ display.workDays = 6

\* C9 as stated: with totalDays > 0, sleeps is totalDays, the difference of
\* the two calendar days, and sunrises is totalDays + 1.
C9_SleepsIsTotalDays ==
    (lastEval.some /\ display.shown
       /\ CalendarDays(lastEval.now, lastEval.target) > 0) =>
        /\ display.sleeps = CalendarDays(lastEval.now, lastEval.target)
        /\ display.sunrises = CalendarDays(lastEval.now, lastEval.target) + 1

\* C9 amended: with totalDays > 0, sleeps is the countdown's days, the whole
\* days in target - now, and sunrises is that plus one; sleeps is totalDays
\* or totalDays - 1.
C9_SleepsIsCountdownDays ==
    (lastEval.some /\ display.shown
       /\ CalendarDays(lastEval.now, lastEval.target) > 0) =>
        /\ display.sleeps = WholeDays(lastEval.now, lastEval.target)
        /\ display.sleeps = display.days
        /\ display.sunrises = display.sleeps + 1
        /\ display.sleeps \in { CalendarDays(lastEval.now, lastEval.target) - 1,
                                CalendarDays(lastEval.now, lastEval.target) }

\* C9's case: the target's time of day is earlier than the clock's, and
\* sleeps is one less than totalDays
C9_Witness ==
    /\ lastEval.some /\ display.shown
    /\ CalendarDays(lastEval.now, lastEval.target) = 8
    /\ lastEval.target.ms < lastEval.now.ms
    /\ display.sleeps = 7 /\ display.sunrises = 8

\* C10: when the target's calendar day is the clock's or an earlier one,
\* every calendar metric shown is 0.
C10_NoDaysAllZero ==
    (lastEval.some /\ display.shown
       /\ CalendarDays(lastEval.now, lastEval.target) <= 0) =>
        /\ display.weekends = 0 /\ display.workDays = 0
        /\ display.workHours = 0 /\ display.sleeps = 0
        /\ display.sunrises = 0 /\ display.mondays = 0
        /\ display.fridays = 0

\* C10's case: the target is later on the clock's own day, the countdown
\* still running
C10_Witness ==
    /\ lastEval.some /\ display.shown
    /\ CalendarDays(lastEval.now, lastEval.target) = 0
    /\ display.days = 0 /\ display.hours = 15 /\ display.seconds = 30
    /\ display.sunrises = 0 /\ display.weekends = 0

-----------------------------------------------------------------------------
(* Progress *)

\* b - a as a millisecond count, for two instants
Span(a, b) ==
    IF b.ms < a.ms THEN [d |-> b.d - a.d - 1, ms |-> b.ms - a.ms + 86400000]
    ELSE [d |-> b.d - a.d, ms |-> b.ms - a.ms]

\* the employment start is before the target
StartsBeforeTarget == Earlier(EMPLOYMENT_START_DATE, retirementDate)

\* the number p is the integer k
PctIs(p, k) ==
    \/ p.kind = "int" /\ p.v = k
    \/ p.kind = "ratio" /\ MsTimes(p.n, p.c) = MsTimes(p.t, k)

\* p <= q for two percentages over the same total time
PctLeq(p, q) ==
    CASE p.kind = "int" /\ q.kind = "int" -> p.v <= q.v
      [] p.kind = "int" /\ q.kind = "ratio" ->
            ~Earlier(MsTimes(q.n, q.c), MsTimes(q.t, p.v))
      [] p.kind = "ratio" /\ q.kind = "int" ->
            ~Earlier(MsTimes(p.t, q.v), MsTimes(p.n, p.c))
      [] p.kind = "ratio" /\ q.kind = "ratio" ->
            p.t = q.t /\ p.c = q.c /\ ~Earlier(q.n, p.n)
      [] OTHER -> FALSE

\* C11: with the employment start before the target, the percentage
\* calculateProgress returns is 0 when now is before the start, 100 when now
\* is after the target, and otherwise the quotient 100 * (now - start) /
\* (target - start); in every case it lies in [0, 100].
C11_ProgressClamped ==
    (progress.some /\ StartsBeforeTarget) =>
        LET p == progress.percentage
        IN /\ PctLeq(IntNum(0), p) /\ PctLeq(p, IntNum(100))
           /\ IF Earlier(now, EMPLOYMENT_START_DATE) THEN PctIs(p, 0)
              ELSE IF Earlier(retirementDate, now) THEN PctIs(p, 100)
              ELSE p = [kind |-> "ratio",
                        n |-> Span(EMPLOYMENT_START_DATE, now),
                        t |-> Span(EMPLOYMENT_START_DATE, retirementDate),
                        c |-> 100]

\* C11's case: the clock after the target, the percentage clamped to 100
C11_Witness ==
    /\ progress.some
    /\ StartsBeforeTarget
    /\ Earlier(retirementDate, now)
    /\ progress.percentage = IntNum(100)

\* C13: with the employment start before the target, the percentage is
\* exactly 0 with now at the start, exactly 100 with now at the target and
\* exactly 50 with now halfway between the two.
C13_ProgressEndpoints ==
    (progress.some /\ StartsBeforeTarget) =>
        LET p == progress.percentage
        IN /\ now = EMPLOYMENT_START_DATE => PctIs(p, 0)
           /\ now = retirementDate => PctIs(p, 100)
           /\ MsTimes(Span(EMPLOYMENT_START_DATE, now), 2)
                = Span(EMPLOYMENT_START_DATE, retirementDate) => PctIs(p, 50)

\* C13's case: the clock halfway between the start and a target
\* ProgressSpanDays days after it
C13_Witness ==
    /\ progress.some
    /\ retirementDate.d = EMPLOYMENT_START_DATE.d + ProgressSpanDays
    /\ now.d = EMPLOYMENT_START_DATE.d + (ProgressSpanDays \div 2)
    /\ MsTimes(Span(EMPLOYMENT_START_DATE, now), 2)
         = Span(EMPLOYMENT_START_DATE, retirementDate)
    /\ PctIs(progress.percentage, 50)

\* C14 as claimed: with the target at or before the employment start,
\* calculateProgress reports 100 for every now.
C14_DegenerateIsHundred ==
    (progress.some /\ ~StartsBeforeTarget) => PctIs(progress.percentage, 100)

\* C15: the description updateProgress writes is the band of the
\* percentage p in [0, 100]: below 25, from 25 to below 50, from 50 to below
\* 75, from 75 to below 90, 90 and above; 25, 50, 75 and 90 belong to the
\* upper band.  (p < 25 iff 4n < t, and so on, for p = 100n/t.)
C15_Bands ==
    (progress.some /\ progress.percentage.kind \in {"int", "ratio"}) =>
        LET p == progress.percentage
            n == IF p.kind = "int" THEN [d |-> 0, ms |-> p.v] ELSE p.n
            t == IF p.kind = "int" THEN [d |-> 0, ms |-> 100] ELSE p.t
            band == IF Earlier(MsTimes(n, 4), t) THEN 1
                    ELSE IF Earlier(MsTimes(n, 2), t) THEN 2
                    ELSE IF Earlier(MsTimes(n, 4), MsTimes(t, 3)) THEN 3
                    ELSE IF Earlier(MsTimes(n, 10), MsTimes(t, 9)) THEN 4
                    ELSE 5
        IN /\ PctLeq(IntNum(0), p) /\ PctLeq(p, IntNum(100))
           /\ progress.description =
                CASE band = 1 -> "The journey has begun!"
                  [] band = 2 -> "Making steady progress!"
                  [] band = 3 -> "More than halfway there!"
                  [] band = 4 -> "The finish line is in sight!"
                  [] band = 5 -> "Almost there! So close!"

\* C15's case: the percentage exactly 25, in the second band
C15_Witness ==
    /\ progress.some
    /\ progress.percentage.kind = "ratio"
    /\ PctIs(progress.percentage, 25)
    /\ progress.description = "Making steady progress!"

\* C12: while the target date stays the same, the percentage a render shows
\* is never below the percentage the render before it showed.
C12_ProgressMonotone ==
    [][ (progress.some /\ progress'.some /\ retirementDate' = retirementDate) =>
            PctLeq(progress.percentage, progress'.percentage) ]_vars

\* C12's case: a timer tick has rendered the progress of the unchanged
\* default target at a later clock reading than the first
C12_Witness ==
    /\ lastOp.op = "tick"
    /\ progress.some
    /\ retirementDate = DefaultRetirementDate
    /\ persisted = None
    /\ Earlier(StartInstant, now)
    /\ progress.elapsed = Span(EMPLOYMENT_START_DATE, now)
    /\ PctLeq(IntNum(99), progress.percentage)

-----------------------------------------------------------------------------
(* The store *)

\* the stored string is a date string
Parses(savedDate) == savedDate.kind \in {"iso", "local"}

\* what C16 says of a load that found savedDate, `removed` telling which
\* stored values the load removes
LoadFallback(removed) ==
    lastOp.op = "load" =>
        LET savedDate == lastOp.savedDate
        IN /\ (lastOp.readFails \/ savedDate = NoStored \/ ~Parses(savedDate)) =>
                retirementDate = DefaultRetirementDate
           /\ (~lastOp.readFails /\ savedDate \in removed) => stored = NoStored
           /\ (lastOp.readFails \/ savedDate \notin removed) => stored = savedDate
           /\ (~lastOp.readFails /\ Parses(savedDate)) =>
                /\ ~IsNaN(retirementDate)
                /\ toISOString(retirementDate) = savedDate

\* C16 as claimed: on load the target date is the default when the store has
\* no value, when the stored value is no date, or when the read throws; every
\* stored value that is no date is removed; a stored date becomes the target.
C16_UnparseableRemoved == LoadFallback({EmptyString, NotADate})

\* C16: as claimed, except that the stored value '' is not removed: the load
\* removes a stored value that is no date only if it is not the empty string.
C16_NonEmptyUnparseableRemoved == LoadFallback({NotADate})

\* C16's case: a load that found a string that is no date, and removed it
C16_Witness ==
    /\ lastOp.op = "load"
    /\ ~lastOp.readFails
    /\ lastOp.savedDate = NotADate
    /\ stored = NoStored
    /\ retirementDate = DefaultRetirementDate

\* C17: a load that reads, without failure, the string an accepted update
\* stored for the date D makes D the target date, to the millisecond.
C17_RoundTrip ==
    (lastOp.op = "load" /\ ~lastOp.readFails /\ persisted.some) =>
        /\ retirementDate.d = persisted.v.d
        /\ retirementDate.ms = persisted.v.ms

\* C17's case: a date with seconds and milliseconds, reloaded
C17_Witness ==
    /\ lastOp.op = "load"
    /\ ~lastOp.readFails
    /\ persisted.some
    /\ persisted.v.ms % 60000 = 30250
    /\ retirementDate = persisted.v
    /\ stored.kind = "iso"

\* C18: an accepted click whose write to the store throws still takes the
\* candidate as the target date, leaves the stored value as it was, renders
\* the countdown of the candidate, and leaves both timers scheduled.
C18_WriteFailure ==
    [][ (lastOp'.op = "click" /\ now' = now /\ lastOp'.outcome = "accepted"
            /\ lastOp'.writeFails) =>
            /\ Parses(lastOp'.value)
            /\ formatDateForInput(retirementDate') = lastOp'.value
            /\ stored' = stored
            /\ phase' = "running"
            /\ lastEval' = [some |-> TRUE, now |-> now, target |-> retirementDate']
            /\ display'.shown
            /\ display'.days = WholeDays(now, retirementDate')
            /\ display'.seconds = WholeSeconds(now, retirementDate') % 60
            /\ countdownInterval' /\ milestoneInterval'
            /\ countdownInterval /\ milestoneInterval
      ]_vars

\* C18's case: the write of a second date failed; the store still holds the
\* first date while the page counts down to the second
C18_Witness ==
    /\ lastOp.op = "click"
    /\ lastOp.outcome = "accepted"
    /\ lastOp.writeFails
    /\ stored.kind = "iso"
    /\ stored # toISOString(retirementDate)
    /\ display.shown
    /\ countdownInterval /\ milestoneInterval
    /\ notes = <<"Date updated but could not be saved", "Retirement date updated!">>

-----------------------------------------------------------------------------
(* The reached state *)

\* C19: an evaluation that finds target <= now leaves the celebration screen
\* up; from then on every step but the reset leaves it up, with no
\* countdown, metric, progress or milestone values and no new notification;
\* the reset leaves a document to be loaded afresh with no timer scheduled,
\* and the stored date removed unless the store throws.
C19_ReachedIsTerminal ==
    [][ /\ (lastEval'.some /\ ~Earlier(lastEval'.now, lastEval'.target)) =>
              phase' = "celebration"
        /\ phase = "celebration" =>
              \/ /\ lastOp'.op = "reset"
                 /\ phase' = "unloaded"
                 /\ ~countdownInterval' /\ ~milestoneInterval'
                 /\ ~lastOp'.removeFails => stored' = NoStored
              \/ /\ lastOp'.op # "reset"
                 /\ phase' = "celebration"
                 /\ ~display'.shown
                 /\ progress' = [some |-> FALSE]
                 /\ milestones' = <<>>
                 /\ notes' = <<>> \/ notes' = notes
                 /\ stored' = stored
      ]_vars

\* C19's case: the milestone timer has fired in the reached state, after a
\* load that found the stored date passed
C19_Witness ==
    /\ phase = "celebration"
    /\ lastOp.op = "milestone"
    /\ lastDays.some /\ lastDays.v < 0
    /\ ~display.shown
    /\ notes = <<>>

-----------------------------------------------------------------------------
(* Confetti *)

\* C21: whatever the interleaving of the createConfetti calls (accepted
\* updates, milestone notifications, the celebration interval) and of the
\* removal timers, the container never holds more than 200 elements; a call
\* on a container that nothing is removed from leaves min(200, before + 50)
\* elements, so repeated calls stop at exactly 200.
C21_ConfettiBounded ==
    [][ /\ confetti' >= 0 /\ confetti' <= 200
        /\ (lastOp'.op = "confetti" /\ now' = now) =>
              confetti' = IF confetti + 50 > 200 THEN 200 ELSE confetti + 50
      ]_vars

\* C21's case: a call of the celebration interval has filled the container
C21_Witness ==
    /\ lastOp.op = "confetti"
    /\ confetti = 200
    /\ celebrationConfettiInterval
    /\ phase = "celebration"

-----------------------------------------------------------------------------
(* The file server *)

\* 60 seconds after the instant t
C22_WindowEnd(t) ==
    [d |-> t.d + ((t.ms + 60000) \div 86400000), ms |-> (t.ms + 60000) % 86400000]

\* C22: a request of a client with no open window (no record, or one whose
\* resetTime is strictly before now) is allowed and opens a window of 60
\* seconds with count 1; within a window a request is allowed and counted
\* while the count is below 100, and answered 429 with the record unchanged
\* once the count is 100; no count exceeds 100, and a request changes no
\* other client's record.
C22_RateLimit ==
    [][ (lastOp'.op = "request" /\ now' = now) =>
          LET ip == lastOp'.ip
              before == requestCounts[ip]
              after == requestCounts'[ip]
              open == before.has /\ ~Earlier(before.resetTime, now)
          IN /\ after.has /\ after.count >= 1 /\ after.count <= 100
             /\ ~open =>
                  /\ response'.status # 429
                  /\ after.count = 1
                  /\ after.resetTime = C22_WindowEnd(now)
             /\ (open /\ before.count < 100) =>
                  /\ response'.status # 429
                  /\ after.count = before.count + 1
                  /\ after.resetTime = before.resetTime
             /\ (open /\ before.count >= 100) =>
                  /\ response'.status = 429
                  /\ after = before
             /\ \A other \in DOMAIN requestCounts :
                  other # ip => requestCounts'[other] = requestCounts[other]
      ]_vars

\* C22's case: the first client's request was answered 429 at the very end of
\* its window, its count being 100, while the second client has a window of
\* its own
C22_Witness ==
    /\ lastOp.op = "request" /\ lastOp.ip = "10.0.0.1"
    /\ response.status = 429
    /\ requestCounts["10.0.0.1"].count = 100
    /\ requestCounts["10.0.0.1"].resetTime = now
    /\ requestCounts["10.0.0.2"].has
    /\ requestCounts["10.0.0.2"].count = 1

\* the path of a request URL decoded n times, the empty string where
\* decoding fails
RECURSIVE C23_Decoded(_, _)
C23_Decoded(path, n) ==
    IF n = 0 THEN path
    ELSE LET once == decodeURIComponent(path)
         IN IF once.ok THEN C23_Decoded(once.out, n - 1) ELSE <<>>

\* the URL's path has a '..' written plainly, encoded once or encoded twice,
\* or a '//'
C23_Traversal(url) ==
    \/ \E n \in 0..2 : Includes(C23_Decoded(BeforeQuery(url), n), ".", ".")
    \/ Includes(BeforeQuery(url), "/", "/")

\* the absolute path lies in the server's directory /srv/app
C23_Inside(fullPath) ==
    Len(fullPath) > 2 /\ fullPath[1] = <<"srv">> /\ fullPath[2] = <<"app">>

\* the absolute path ends in an extension of the allow-list, in either case
C23_AllowListed(fullPath) ==
    LET name == fullPath[Len(fullPath)]
    IN /\ Len(name) >= 3
       /\ name[Len(name) - 1] = "."
       /\ name[Len(name)] \in {"html", "HTML", "css", "js", "json", "png",
                               "jpg", "gif", "svg", "ico"}

\* C23: the path a request hands to the file system lies inside the server's
\* directory and has an allow-listed extension, and a GET or HEAD request
\* that passed the rate limit and whose path has a '..' (plain, %2e%2e or
\* %252e%252e) or a '//' is answered 403.
C23_NeverOutside ==
    lastOp.op = "request" =>
        /\ response.file.reached =>
              /\ C23_Inside(response.file.fullPath)
              /\ C23_AllowListed(response.file.fullPath)
        /\ (C23_Traversal(lastOp.url) /\ response.status \notin {405, 429}) =>
              response.status = 403

\* the six security headers of C24
C24_Headers ==
    {"X-Frame-Options", "X-Content-Type-Options", "X-XSS-Protection",
     "Referrer-Policy", "Permissions-Policy", "Content-Security-Policy"}

\* C24: every response of the hardened server, whatever its status and the
\* request's method, carries all six security headers.
C24_AllResponsesSecured ==
    (lastOp.op = "request" /\ lastOp.server = "hardened") =>
        C24_Headers \subseteq response.headers

-----------------------------------------------------------------------------
(* Milestones over time *)

\* the place of a milestone state in the order locked, active, achieved
C25_Rank(state) ==
    CASE state = "locked" -> 0
      [] state = "active" -> 1
      [] state = "achieved" -> 2

\* C25: while the target stays the same, from one rendered milestone list to
\* the next no milestone goes back in the order locked, active, achieved (so
\* an achieved one stays achieved), and when days-remaining has dropped by at
\* most one no milestone goes from locked to achieved.
C25_ForwardOnly ==
    [][ (retirementDate' = retirementDate /\ milestones # <<>>
           /\ milestones' # <<>>) =>
          \A i \in 1..8 :
            /\ milestones'[i].threshold = milestones[i].threshold
            /\ C25_Rank(milestones'[i].state) >= C25_Rank(milestones[i].state)
            /\ display.days - display'.days <= 1 =>
                 C25_Rank(milestones'[i].state)
                    <= C25_Rank(milestones[i].state) + 1
      ]_vars

\* C25's case: a tick after the clock moved on by a day rendered 30 days, so
\* the milestone of 30 days went from active to achieved, and the milestone
\* of 1 day is in its window
C25_Witness ==
    /\ lastOp.op = "tick"
    /\ advances = 1
    /\ display.shown /\ display.days = 30
    /\ lastEval.some /\ lastEval.now.d = StartInstant.d + 1
    /\ milestones[6] = [threshold |-> 30, state |-> "achieved"]
    /\ milestones[8] = [threshold |-> 1, state |-> "active"]

\* the notification of C26 for the trigger value n
C26_Message(n) ==
    CASE n = 100 -> "Milestone: 100 days remaining!"
      [] n = 50 -> "Milestone: 50 days remaining!"
      [] n = 30 -> "Milestone: 30 days remaining!"
      [] n = 7 -> "Milestone: 7 days remaining!"
      [] n = 1 -> "Milestone: 1 days remaining!"

\* C26: a tick of the milestone timer adds confetti and shows 'Milestone: N
\* days remaining!' exactly when the timer has ticked before since the load,
\* the whole days remaining N differ from that tick's value, and N is one of
\* 100, 50, 30, 7, 1; otherwise it shows nothing and adds nothing (so never
\* on the first tick after a load); and it announces no value that it has
\* announced before for the same target.
C26_MilestoneTimer ==
    [][ (lastOp'.op = "milestone" /\ now' = now) =>
          LET days == WholeDays(now, retirementDate)
          IN /\ lastDays' = Some(days)
             /\ IF lastDays.some /\ lastDays.v # days
                   /\ days \in {100, 50, 30, 7, 1}
                THEN /\ notes' = <<C26_Message(days)>>
                     /\ confetti' = IF confetti + 50 > 200 THEN 200
                                    ELSE confetti + 50
                     /\ days \notin announced
                ELSE /\ notes' = <<>>
                     /\ confetti' = confetti
      ]_vars

\* C26's case: after the clock moved on by a day, the milestone timer's
\* second tick found 100 days instead of 101 and announced it
C26_Witness ==
    /\ lastOp.op = "milestone"
    /\ advances = 1
    /\ lastDays = Some(100)
    /\ notes = <<"Milestone: 100 days remaining!">>
    /\ confetti = 50
    /\ announced = {100}

-----------------------------------------------------------------------------
(* The two day counts *)

\* C27: while now < target, the countdown's days and updateFunMetrics'
\* totalDays satisfy days <= totalDays <= days + 1.
C27_DayCountsWithinOne ==
    (lastEval.some /\ display.shown) =>
        LET totalDays == TotalDays(lastEval.now, lastEval.target)
        IN /\ Earlier(lastEval.now, lastEval.target)
           /\ display.days <= totalDays
           /\ totalDays <= display.days + 1

\* C27's case: the target's time of day is earlier than the clock's, and
\* totalDays is one more than days
C27_Witness ==
    /\ lastEval.some /\ display.shown
    /\ lastEval.target.ms < lastEval.now.ms
    /\ display.days = 364
    /\ TotalDays(lastEval.now, lastEval.target) = 365

-----------------------------------------------------------------------------
(* The milestone cache *)

\* the state of the milestone of threshold T with d days remaining
C28_Classification(d, T) ==
    IF d <= T THEN "achieved" ELSE IF d <= T + 30 THEN "active" ELSE "locked"

\* C28: an evaluation that shows the countdown (on load, on a tick, on an
\* accepted update) rebuilds the milestone list exactly when its days value
\* differs from the one of the previous rebuild, and whenever the countdown
\* is shown every milestone's rendered state is the classification of the
\* days shown.
C28_CacheNeverStale ==
    [][ display'.shown =>
          /\ Len(milestones') = 8
          /\ \A i \in 1..8 :
               /\ milestones'[i].threshold = C3_Thresholds[i]
               /\ milestones'[i].state =
                     C28_Classification(display'.days, C3_Thresholds[i])
          /\ (now' = now
                /\ (\/ lastOp'.op \in {"load", "tick"}
                    \/ (lastOp'.op = "click" /\ lastOp'.outcome = "accepted"))) =>
               (rebuilt' <=> lastMilestoneDays # [some |-> TRUE,
                                                   v |-> display'.days])
      ]_vars

\* C28's case: an accepted update moved the target from years ahead to
\* tomorrow, and the list built for the old target was rebuilt, every
\* milestone now achieved
C28_Witness ==
    /\ lastOp.op = "click" /\ lastOp.outcome = "accepted"
    /\ display.shown /\ display.days = 1
    /\ rebuilt
    /\ lastMilestoneDays = Some(1)
    /\ \A i \in 1..8 : milestones[i].state = "achieved"

\* C29: in the rendered list, whose thresholds go down from 730 to 1, no
\* achieved milestone comes after an active or a locked one and no active
\* one after a locked one: a milestone with a larger threshold than an
\* achieved one is achieved, and one with a larger threshold than an active
\* one is active or achieved.
C29_StateRuns ==
    display.shown =>
        \A i \in 1..Len(milestones), j \in 1..Len(milestones) :
            i < j =>
               /\ milestones[i].threshold > milestones[j].threshold
               /\ milestones[j].state = "achieved" =>
                     milestones[i].state = "achieved"
               /\ milestones[j].state = "active" =>
                     milestones[i].state \in {"active", "achieved"}

\* C29's case: with 200 days remaining the list has all three runs
C29_Witness ==
    /\ display.shown /\ display.days = 200
    /\ milestones[1].state = "achieved" /\ milestones[2].state = "achieved"
    /\ milestones[3].state = "active"
    /\ \A i \in 4..8 : milestones[i].state = "locked"

-----------------------------------------------------------------------------
(* The celebration *)

\* C30: between a load and the next reset celebrateRetirement runs at most
\* once, whatever the order of the first evaluation, the creation of the two
\* timers and their ticks, a load with a date that has passed included.
C30_CelebratesOnce == celebrations <= 1

=============================================================================
